---- MODULE Spec2Model ----
(***************************************************************************)
(* CFDI analyzer: the classifier (app/classifier.py), the document parser  *)
(* (app/parser_cfdi.py) and the batch scanner (app/scanner.py).            *)
(*                                                                         *)
(* Python strings that the code trims, upper-cases or prefix-tests are     *)
(* sequences of one-character strings; an optional value (None or a value) *)
(* is a sequence of length 0 or 1.                                         *)
(***************************************************************************)
EXTENDS Integers, Sequences, FiniteSets, TLC

VARIABLES
    \* ---- XMLScanner (one batch run) ----
    files,          \* result of _collect_xml_files: the documents, in traversal order
    user_rfc,       \* XMLScanner.user_rfc
    pc,             \* position of _run: "idle", "ready", "loop", "done", "crashed"
    total,          \* _run local
    processed,      \* _run local
    invalid_count,  \* _run local
    duplicates,     \* _run local
    cfdi33_count,   \* _run local
    uuids_seen,     \* _run local
    cfdis,          \* _run local
    concepts_all,   \* _run local
    accepted,       \* history: the records parse_cfdi accepted so far, in order
    queue,          \* signals emitted by the worker, not yet delivered to the caller
    delivered,      \* signals delivered to the caller's slots, in order
    win,            \* MainWindow fields the two slots assign
    run,            \* history: the number of scans started from the window
    prev,           \* history: the outcome of the scan before this one
    paths,          \* XMLScanner.paths
    w2,             \* a second XMLScanner, started while the first one runs
    \* ---- classify_cfdi applied to one input ----
    cl_cfdi, cl_user, cl_label, cl_pc,
    \* ---- parse_cfdi applied to one input ----
    p_doc, p_result, p_pc,
    \* ---- compute_kpis applied to one input ----
    k_cfdis, k_counts, k_out, k_pc

scanVars == <<files, user_rfc, pc, total, processed, invalid_count, duplicates,
              cfdi33_count, uuids_seen, cfdis, concepts_all, accepted, queue, delivered,
              win, run, prev, paths, w2>>
clVars   == <<cl_cfdi, cl_user, cl_label, cl_pc>>
pVars    == <<p_doc, p_result, p_pc>>
kVars    == <<k_cfdis, k_counts, k_out, k_pc>>
vars     == <<scanVars, clVars, pVars, kVars>>

(***************************************************************************)
(* Bounds                                                                  *)
(***************************************************************************)
MaxFiles     == 3   \* files enumerated in one run
MaxRfcLen    == 2   \* length of the generated tax-id strings
MaxConceptos == 1   \* Concepto children of a generated document
MaxTaxEntries == 2  \* entries of a generated document-level Traslados list
MaxKpiRecords == 3  \* records of a generated list given to compute_kpis
MaxRankRecords == 6 \* records of a generated list with many counterparties

(***************************************************************************)
(* Python str operations                                                   *)
(***************************************************************************)
None    == <<>>
Some(v) == <<v>>
\* Python's `x or ""` on an optional string
OrEmpty(opt) == IF opt = None THEN <<>> ELSE opt[1]

IsSpace(c) == c = " "
UpperChar(c) ==
    CASE c = "a" -> "A"
      [] c = "b" -> "B"
      [] c = "i" -> "I"
      [] c = "p" -> "P"
      [] OTHER   -> c
\* str.upper()
Upper(s) == [k \in 1..Len(s) |-> UpperChar(s[k])]

RECURSIVE LStrip(_)
LStrip(s) == IF s # <<>> /\ IsSpace(Head(s)) THEN LStrip(Tail(s)) ELSE s
RECURSIVE RStrip(_)
RStrip(s) == IF s # <<>> /\ IsSpace(s[Len(s)]) THEN RStrip(SubSeq(s, 1, Len(s) - 1)) ELSE s
\* str.strip()
Strip(s) == RStrip(LStrip(s))

LowerChar(c) ==
    CASE c = "A" -> "a"
      [] c = "L" -> "l"
      [] c = "M" -> "m"
      [] c = "X" -> "x"
      [] OTHER   -> c
\* str.lower()
Lower(s) == [k \in 1..Len(s) |-> LowerChar(s[k])]

\* str.endswith(suffix)
EndsWith(s, suffix) ==
    /\ Len(s) >= Len(suffix)
    /\ SubSeq(s, Len(s) - Len(suffix) + 1, Len(s)) = suffix

\* str.startswith(prefix)
StartsWith(s, prefix) ==
    /\ Len(s) >= Len(prefix)
    /\ SubSeq(s, 1, Len(prefix)) = prefix

\* the value of a decimal digit, -1 for any other character
DigitVal(c) ==
    CASE c = "0" -> 0 [] c = "1" -> 1 [] c = "2" -> 2 [] c = "3" -> 3
      [] c = "4" -> 4 [] c = "5" -> 5 [] c = "6" -> 6 [] c = "7" -> 7
      [] c = "8" -> 8 [] c = "9" -> 9 [] OTHER -> -1
AllDigits(s) == s # <<>> /\ \A k \in 1..Len(s) : DigitVal(s[k]) >= 0
RECURSIVE DecimalValue(_)
DecimalValue(s) ==
    IF s = <<>> THEN 0
    ELSE 10 * DecimalValue(SubSeq(s, 1, Len(s) - 1)) + DigitVal(s[Len(s)])

\* float(value): surrounding whitespace is ignored, one sign may lead, the
\* rest is the number; anything else is a ValueError.  Amounts are whole
\* numbers here: fractions, exponents, "nan" and "inf" are not generated.
Unsigned(s) ==
    LET t == Strip(s)
    IN  IF t # <<>> /\ t[1] \in {"+", "-"} THEN Tail(t) ELSE t
FloatAccepts(s) == AllDigits(Unsigned(s))
FloatOf(s) ==
    LET t == Strip(s)
    IN  IF t # <<>> /\ t[1] = "-" THEN 0 - DecimalValue(Unsigned(s))
        ELSE DecimalValue(Unsigned(s))

(***************************************************************************)
(* app/utils.py                                                            *)
(***************************************************************************)
\* the index of the first "." of s, 0 if there is none
RECURSIVE FirstDot(_, _)
FirstDot(s, k) ==
    IF k > Len(s) THEN 0 ELSE IF s[k] = "." THEN k ELSE FirstDot(s, k + 1)

\* datetime.fromisoformat on "YYYY-MM-DD" or "YYYY-MM-DD?HH:MM:SS": the
\* datetime, of which only year and month are kept, or None for ValueError
FromIsoFormat(s) ==
    LET num(i, j) == DecimalValue(SubSeq(s, i, j))
        dig(i, j) == AllDigits(SubSeq(s, i, j))
        dateOk == /\ Len(s) >= 10
                  /\ dig(1, 4) /\ s[5] = "-" /\ dig(6, 7) /\ s[8] = "-" /\ dig(9, 10)
                  /\ num(1, 4) >= 1
                  /\ num(6, 7) \in 1..12
                  /\ num(9, 10) \in 1..31
        timeOk == /\ Len(s) = 19
                  /\ dig(12, 13) /\ s[14] = ":" /\ dig(15, 16) /\ s[17] = ":" /\ dig(18, 19)
                  /\ num(12, 13) < 24 /\ num(15, 16) < 60 /\ num(18, 19) < 60
    IN  IF dateOk /\ (Len(s) = 10 \/ timeOk)
        THEN Some([year |-> num(1, 4), month |-> num(6, 7)])
        ELSE None

\* parse_iso_datetime(dt_str)
parse_iso_datetime(dt_str) ==
    IF dt_str = <<>>
    THEN None
    ELSE LET noZ   == IF dt_str[Len(dt_str)] = "Z"
                      THEN SubSeq(dt_str, 1, Len(dt_str) - 1) ELSE dt_str
             dot   == FirstDot(noZ, 1)
             noFrac == IF dot > 0 THEN SubSeq(noZ, 1, dot - 1) ELSE noZ
         IN  FromIsoFormat(noFrac)

\* two decimal digits / four decimal digits of a number, as f"{n:02d}" and
\* f"{n:04d}" print them
DigitChar(d) ==
    CASE d = 0 -> "0" [] d = 1 -> "1" [] d = 2 -> "2" [] d = 3 -> "3" [] d = 4 -> "4"
      [] d = 5 -> "5" [] d = 6 -> "6" [] d = 7 -> "7" [] d = 8 -> "8" [] OTHER -> "9"
Fmt02(n) == <<DigitChar((n \div 10) % 10), DigitChar(n % 10)>>
Fmt04(n) == <<DigitChar((n \div 1000) % 10), DigitChar((n \div 100) % 10)>> \o Fmt02(n)

\* month_key(date): "YYYY-MM", "" for None
month_key(date) ==
    IF date = None THEN <<>>
    ELSE Fmt04(date[1].year) \o <<"-">> \o Fmt02(date[1].month)

(***************************************************************************)
(* app/classifier.py                                                       *)
(***************************************************************************)
Ingresos       == "Ingresos"
Egresos        == "Egresos"
NoClasificado  == "No clasificado"

\* classify_cfdi without the strip() of the receiver tax-id
classify_cfdi_receptor_unstripped(cfdi, user) ==
    IF user = <<>>
    THEN NoClasificado
    ELSE LET rfc_user == Upper(Strip(user))
             emisor   == Upper(Strip(cfdi.emisor_rfc))
             receptor == Upper(cfdi.receptor_rfc)
             tipo     == Upper(cfdi.tipo)
         IN  IF tipo = <<"I">>
             THEN IF rfc_user = emisor THEN Ingresos
                  ELSE IF rfc_user = receptor THEN Egresos
                  ELSE NoClasificado
             ELSE NoClasificado

\* classify_cfdi with the two labels exchanged
classify_cfdi_swapped_labels(cfdi, user) ==
    IF user = <<>>
    THEN NoClasificado
    ELSE LET rfc_user == Upper(Strip(user))
             emisor   == Upper(Strip(cfdi.emisor_rfc))
             receptor == Upper(Strip(cfdi.receptor_rfc))
             tipo     == Upper(cfdi.tipo)
         IN  IF tipo = <<"I">>
             THEN IF rfc_user = emisor THEN Egresos
                  ELSE IF rfc_user = receptor THEN Ingresos
                  ELSE NoClasificado
             ELSE NoClasificado

\* classify_cfdi(cfdi, user_rfc).  A CFDI instance is always truthy, so
\* `not cfdi` is false; `not user_rfc` is true exactly for the empty string.
classify_cfdi(cfdi, user) ==
    IF user = <<>>
    THEN NoClasificado
    ELSE LET rfc_user == Upper(Strip(user))
             emisor   == Upper(Strip(cfdi.emisor_rfc))
             receptor == Upper(Strip(cfdi.receptor_rfc))
             tipo     == Upper(cfdi.tipo)
         IN  IF tipo = <<"I">>
             THEN IF rfc_user = emisor THEN Ingresos
                  ELSE IF rfc_user = receptor THEN Egresos
                  ELSE NoClasificado
             ELSE NoClasificado

(***************************************************************************)
(* app/parser_cfdi.py                                                      *)
(*                                                                         *)
(* A document (the content of one file) is a record:                       *)
(*   wellFormed         etree.parse succeeds                               *)
(*   nsmap              root.nsmap: prefix -> URI, the default namespace   *)
(*                      under the key NoPrefix (lxml's key None)           *)
(*   Version, version, TipoDeComprobante, TipoComprobante                  *)
(*                      optional root attributes                           *)
(*   complemento        optional child [ns, timbre], timbre an optional    *)
(*                      child [ns, UUID] with UUID an optional attribute   *)
(*   emisor, receptor   optional children [ns, Rfc], Rfc optional          *)
(*   conceptos          optional child [ns, items], items the Concepto     *)
(*                      children in document order, each [ns, Descripcion, *)
(*                      Cantidad, ValorUnitario, Importe, Descuento,       *)
(*                      impuestos]                                         *)
(*   Fecha, fecha, SubTotal, Descuento, Total, TipoCambio                  *)
(*                      optional root attributes                           *)
(*   impuestos          optional child [ns, traslados, retenciones], each  *)
(*                      of the two an optional child [ns, items], items    *)
(*                      the Traslado / Retencion children [ns, Impuesto,   *)
(*                      Importe]                                           *)
(***************************************************************************)
CFD4_URI == "http://www.sat.gob.mx/cfd/4"
CFD3_URI == "http://www.sat.gob.mx/cfd/3"
TFD_URI  == "http://www.sat.gob.mx/TimbreFiscalDigital"
NoPrefix == "#default"

Warn33 == "CFDI 3.3 detectado: procesado, pero se recomienda CFDI 4.0"

\* truthiness of an optional string: neither None nor ""
Truthy(opt) == opt # None /\ opt[1] # <<>>
\* `a or b` on optional strings
PyOr(a, b) == IF Truthy(a) THEN a ELSE b

\* nsmap = {k if k else "cfdi": v for k, v in root.nsmap.items()}, then the
\* "tfd" fallback
RenameKey(k) == IF k = NoPrefix THEN "cfdi" ELSE k
BuildNsmap(rootmap) ==
    LET renamed == [q \in {RenameKey(k) : k \in DOMAIN rootmap} |->
                        rootmap[CHOOSE k \in DOMAIN rootmap : RenameKey(k) = q]]
    IN  IF "tfd" \in DOMAIN renamed
        THEN renamed
        ELSE [q \in DOMAIN renamed \cup {"tfd"} |->
                 IF q = "tfd" THEN TFD_URI ELSE renamed[q]]

\* element.find("<prefix>:<name>", namespaces=nsmap) for the optional child
\* holding the element of that local name: the child if its namespace is the
\* one bound to the prefix.  (The caller checks that the prefix is bound: an
\* unbound prefix makes find raise SyntaxError.)
Find(child, prefix, nsmap) ==
    IF child # None /\ child[1].ns = nsmap[prefix] THEN child ELSE None

PrefixBound(prefix, nsmap) == prefix \in DOMAIN nsmap

\* _safe_float with 1.0 as the value of an unparseable attribute
safe_float_default_one(value) ==
    IF value = None THEN 0
    ELSE IF FloatAccepts(value[1]) THEN FloatOf(value[1]) ELSE 1

\* _safe_float(value): value is an optional attribute string
safe_float(value) ==
    IF value = None THEN 0
    ELSE IF FloatAccepts(value[1]) THEN FloatOf(value[1]) ELSE 0

T001 == <<"0", "0", "1">>
T002 == <<"0", "0", "2">>
T003 == <<"0", "0", "3">>

\* node.find("cfdi:<list>") then .findall("cfdi:<entry>"): the entries read
\* from an optional list child, as (impuesto, importe) pairs
TaxEntries(listChild, nsmap) ==
    LET parent == Find(listChild, "cfdi", nsmap)
    IN  IF parent = None THEN <<>>
        ELSE LET match == SelectSeq(parent[1].items, LAMBDA t : t.ns = nsmap["cfdi"])
             IN  [k \in 1..Len(match) |->
                     [impuesto |-> match[k].Impuesto,
                      importe  |-> safe_float(match[k].Importe)]]

\* the traslados / retenciones read under an optional Impuestos child
TrasladosOf(impuestosChild, nsmap) ==
    LET node == Find(impuestosChild, "cfdi", nsmap)
    IN  IF node = None THEN <<>> ELSE TaxEntries(node[1].traslados, nsmap)
\* the retenciones with only the VAT entries read
RetencionesOf_vat_only(impuestosChild, nsmap) ==
    LET node == Find(impuestosChild, "cfdi", nsmap)
    IN  IF node = None THEN <<>>
        ELSE SelectSeq(TaxEntries(node[1].retenciones, nsmap),
                       LAMBDA t : t.impuesto = Some(T002))
RetencionesOf(impuestosChild, nsmap) ==
    LET node == Find(impuestosChild, "cfdi", nsmap)
    IN  IF node = None THEN <<>> ELSE TaxEntries(node[1].retenciones, nsmap)

\* an accumulator that keeps the last amount instead of adding
RECURSIVE SumCode_overwrites(_, _)
SumCode_overwrites(entries, code) ==
    IF entries = <<>> THEN 0
    ELSE LET last == entries[Len(entries)]
         IN  IF last.impuesto = Some(code) THEN last.importe
             ELSE SumCode_overwrites(SubSeq(entries, 1, Len(entries) - 1), code)

\* `if impuesto == code: acc += importe` over the entries
RECURSIVE SumCode(_, _)
SumCode(entries, code) ==
    IF entries = <<>> THEN 0
    ELSE SumCode(Tail(entries), code)
         + (IF Head(entries).impuesto = Some(code) THEN Head(entries).importe ELSE 0)

\* `d[impuesto] = d.get(impuesto, 0.0) + importe` over the entries
RECURSIVE SumKey(_, _)
SumKey(entries, key) ==
    IF entries = <<>> THEN 0
    ELSE SumKey(Tail(entries), key)
         + (IF Head(entries).impuesto = key THEN Head(entries).importe ELSE 0)
TaxDict(entries) ==
    [key \in {entries[k].impuesto : k \in 1..Len(entries)} |-> SumKey(entries, key)]

RECURSIVE SumSeq(_)
SumSeq(xs) == IF xs = <<>> THEN 0 ELSE Head(xs) + SumSeq(Tail(xs))

Rejected == [raised |-> FALSE, cfdi |-> None, concepts |-> <<>>]
\* an exception leaves parse_cfdi: there is no return value
Raised   == [raised |-> TRUE, cfdi |-> None, concepts |-> <<>>]

\* the Concepto objects built from the Concepto children, in document order
BuildConcepts(uuid, conceptos_parent, nsmap) ==
    IF conceptos_parent = None
    THEN <<>>
    ELSE LET items == conceptos_parent[1].items
             match == SelectSeq(items, LAMBDA c : c.ns = nsmap["cfdi"])
         IN  [k \in 1..Len(match) |->
                 [uuid |-> uuid,
                  descripcion |-> OrEmpty(match[k].Descripcion),
                  cantidad |-> safe_float(match[k].Cantidad),
                  valor_unitario |-> safe_float(match[k].ValorUnitario),
                  importe |-> safe_float(match[k].Importe),
                  descuento |-> safe_float(match[k].Descuento),
                  impuestos_traslado |->
                      TaxDict(TrasladosOf(match[k].impuestos, nsmap)),
                  impuestos_retencion |->
                      TaxDict(RetencionesOf(match[k].impuestos, nsmap))]]

\* the Concepto children that the loop of lines 136-176 visits
ConceptoNodes(doc, nsmap) ==
    LET parent == Find(doc.conceptos, "cfdi", nsmap)
    IN  IF parent = None THEN <<>>
        ELSE SelectSeq(parent[1].items, LAMBDA c : c.ns = nsmap["cfdi"])

\* what the Traslado entries of the line items add to the total of a tax
LineTraslados(doc, nsmap, code) ==
    LET nodes == ConceptoNodes(doc, nsmap)
    IN  SumSeq([k \in 1..Len(nodes) |->
                   SumCode(TrasladosOf(nodes[k].impuestos, nsmap), code)])
\* what the Retencion entries of the line items add to the total of a tax
LineRetenciones(doc, nsmap, code) ==
    LET nodes == ConceptoNodes(doc, nsmap)
    IN  SumSeq([k \in 1..Len(nodes) |->
                   SumCode(RetencionesOf(nodes[k].impuestos, nsmap), code)])

\* the legacy warning on every record
Warnings_always(version) == <<Warn33>>
\* lines 66-68
Warnings(version) == IF StartsWith(version, <<"3", ".", "3">>) THEN <<Warn33>> ELSE <<>>

\* the part of parse_cfdi after the UUID was found (lines 65-208)
BuildCFDI(doc, nsmap, version, tipo, uuid) ==
    LET warnings == Warnings(version)
        fecha_str == PyOr(doc.Fecha, doc.fecha)
        fecha    == IF Truthy(fecha_str) THEN parse_iso_datetime(fecha_str[1]) ELSE None
        docTras  == TrasladosOf(doc.impuestos, nsmap)
        docRet   == RetencionesOf(doc.impuestos, nsmap)
        emisor   == Find(doc.emisor, "cfdi", nsmap)
        emisor_rfc == IF emisor # None THEN emisor[1].Rfc ELSE Some(<<>>)
        receptor == Find(doc.receptor, "cfdi", nsmap)
        receptor_rfc == IF receptor # None THEN receptor[1].Rfc ELSE Some(<<>>)
        conceptos_parent == Find(doc.conceptos, "cfdi", nsmap)
        concepts == BuildConcepts(uuid, conceptos_parent, nsmap)
    IN  [raised |-> FALSE,
         cfdi |-> Some([uuid |-> uuid,
                        fecha |-> fecha,
                        subtotal |-> safe_float(PyOr(doc.SubTotal, doc.SubTotal)),
                        descuento |-> safe_float(doc.Descuento),
                        total |-> safe_float(doc.Total),
                        tipo_cambio |-> safe_float(doc.TipoCambio),
                        iva_trasladado |->
                            SumCode(docTras, T002)
                            + LineTraslados(doc, nsmap, T002),
                        isr_retenido |->
                            SumCode(docRet, T001)
                            + LineRetenciones(doc, nsmap, T001),
                        iva_retenido |->
                            SumCode(docRet, T002)
                            + LineRetenciones(doc, nsmap, T002),
                        ieps |->
                            SumCode(docRet, T003)
                            + LineTraslados(doc, nsmap, T003)
                            + LineRetenciones(doc, nsmap, T003),
                        tipo |-> tipo,
                        emisor_rfc |-> OrEmpty(emisor_rfc),
                        receptor_rfc |-> OrEmpty(receptor_rfc),
                        num_conceptos |-> Len(concepts),
                        version |-> version,
                        warnings |-> warnings,
                        clasificacion |-> NoClasificado]),
         concepts |-> concepts]

\* the UUID lookup of lines 54-60: the optional UUID attribute
FindUUID(doc, nsmap) ==
    LET complemento == Find(doc.complemento, "cfdi", nsmap)
    IN  IF complemento = None THEN None
        ELSE LET timbre == Find(complemento[1].timbre, "tfd", nsmap)
             IN  IF timbre = None THEN None ELSE timbre[1].UUID

\* parse_cfdi in which the type-P test is made on the raw attribute
parse_cfdi_p_case_sensitive(doc) ==
    IF ~doc.wellFormed
    THEN Rejected
    ELSE LET nsmap   == BuildNsmap(doc.nsmap)
             version == OrEmpty(PyOr(PyOr(doc.Version, doc.version), Some(<<>>)))
             tipo0   == OrEmpty(PyOr(PyOr(doc.TipoDeComprobante, doc.TipoComprobante), Some(<<>>)))
             tipo    == Upper(tipo0)
         IN  IF tipo0 = <<"P">>
             THEN Rejected
             ELSE IF ~PrefixBound("cfdi", nsmap)
             THEN Raised
             ELSE LET uuid == FindUUID(doc, nsmap)
                  IN  IF ~Truthy(uuid)
                      THEN Rejected
                      ELSE BuildCFDI(doc, nsmap, version, tipo, uuid[1])

\* parse_cfdi(xml_path), on the content of the file
parse_cfdi(doc) ==
    IF ~doc.wellFormed
    THEN Rejected                                   \* lines 31-37
    ELSE LET nsmap   == BuildNsmap(doc.nsmap)       \* lines 40-43
             version == OrEmpty(PyOr(PyOr(doc.Version, doc.version), Some(<<>>)))
             tipo0   == OrEmpty(PyOr(PyOr(doc.TipoDeComprobante, doc.TipoComprobante), Some(<<>>)))
             tipo    == Upper(tipo0)                \* line 49
         IN  IF tipo = <<"P">>
             THEN Rejected                          \* lines 50-52
             ELSE IF ~PrefixBound("cfdi", nsmap)
             THEN Raised                            \* line 56: find raises SyntaxError
             ELSE LET uuid == FindUUID(doc, nsmap)  \* lines 54-60
                  IN  IF ~Truthy(uuid)
                      THEN Rejected                 \* lines 61-63
                      ELSE BuildCFDI(doc, nsmap, version, tipo, uuid[1])

(***************************************************************************)
(* app/kpis.py: compute_kpis.  A dict is the sequence of its (key, value)  *)
(* pairs in insertion order, the order in which sorted() meets them.       *)
(***************************************************************************)
TopN == 5

\* the position of a key in a dict, 0 if it is absent
KeyIndex(d, key) ==
    IF \E i \in 1..Len(d) : d[i][1] = key
    THEN CHOOSE i \in 1..Len(d) : d[i][1] = key
    ELSE 0

\* d[key] = amount in the place of d[key] += amount
DictAdd_overwrites(d, key, amount) ==
    LET i == KeyIndex(d, key)
    IN  IF i = 0 THEN Append(d, <<key, 0 + amount>>)
        ELSE [d EXCEPT ![i] = <<key, amount>>]

\* d[key] += amount on a defaultdict(float)
DictAdd(d, key, amount) ==
    LET i == KeyIndex(d, key)
    IN  IF i = 0 THEN Append(d, <<key, 0 + amount>>)
        ELSE [d EXCEPT ![i] = <<key, d[i][2] + amount>>]

\* the state of the locals of compute_kpis before the loop (lines 33-45)
KpiStart ==
    [total_ingresos |-> 0, total_egresos |-> 0,
     total_iva_trasladado |-> 0, total_isr_retenido |-> 0,
     total_iva_retenido |-> 0, total_ieps |-> 0,
     count_ingresos |-> 0, count_egresos |-> 0,
     ingresos_por_mes |-> <<>>, egresos_por_mes |-> <<>>,
     clientes_counter |-> <<>>, proveedores_counter |-> <<>>]

\* lines 50-59 with the two counterparty keys exchanged
Directional_keys_swapped(acc, c) ==
    LET month == month_key(c.fecha)
    IN  IF c.clasificacion = Ingresos
        THEN [acc EXCEPT
                 !.total_ingresos = @ + c.total,
                 !.count_ingresos = @ + 1,
                 !.ingresos_por_mes = DictAdd(@, month, c.total),
                 !.clientes_counter = DictAdd(@, c.emisor_rfc, c.total)]
        ELSE IF c.clasificacion = Egresos
        THEN [acc EXCEPT
                 !.total_egresos = @ + c.total,
                 !.count_egresos = @ + 1,
                 !.egresos_por_mes = DictAdd(@, month, c.total),
                 !.proveedores_counter = DictAdd(@, c.receptor_rfc, c.total)]
        ELSE acc

\* lines 50-59 with `elif clasif == "Egresos"` replaced by `else`
Directional_else_expense(acc, c) ==
    LET month == month_key(c.fecha)
    IN  IF c.clasificacion = Ingresos
        THEN [acc EXCEPT
                 !.total_ingresos = @ + c.total,
                 !.count_ingresos = @ + 1,
                 !.ingresos_por_mes = DictAdd(@, month, c.total),
                 !.clientes_counter = DictAdd(@, c.receptor_rfc, c.total)]
        ELSE [acc EXCEPT
                 !.total_egresos = @ + c.total,
                 !.count_egresos = @ + 1,
                 !.egresos_por_mes = DictAdd(@, month, c.total),
                 !.proveedores_counter = DictAdd(@, c.emisor_rfc, c.total)]

\* lines 48-59: the part of the loop body gated by the classification
Directional(acc, c) ==
    LET month == month_key(c.fecha)
    IN  IF c.clasificacion = Ingresos
        THEN [acc EXCEPT
                 !.total_ingresos = @ + c.total,
                 !.count_ingresos = @ + 1,
                 !.ingresos_por_mes = DictAdd(@, month, c.total),
                 !.clientes_counter = DictAdd(@, c.receptor_rfc, c.total)]
        ELSE IF c.clasificacion = Egresos
        THEN [acc EXCEPT
                 !.total_egresos = @ + c.total,
                 !.count_egresos = @ + 1,
                 !.egresos_por_mes = DictAdd(@, month, c.total),
                 !.proveedores_counter = DictAdd(@, c.emisor_rfc, c.total)]
        ELSE acc

\* lines 71-74 moved under the classification test
AddTaxes_gated(acc, c) ==
    IF c.clasificacion \in {Ingresos, Egresos}
    THEN [acc EXCEPT
             !.total_iva_trasladado = @ + c.iva_trasladado,
             !.total_isr_retenido = @ + c.isr_retenido,
             !.total_iva_retenido = @ + c.iva_retenido,
             !.total_ieps = @ + c.ieps]
    ELSE acc

\* lines 71-74: the taxes of every record
AddTaxes(acc, c) ==
    [acc EXCEPT
        !.total_iva_trasladado = @ + c.iva_trasladado,
        !.total_isr_retenido = @ + c.isr_retenido,
        !.total_iva_retenido = @ + c.iva_retenido,
        !.total_ieps = @ + c.ieps]

\* the loop of lines 47-74
RECURSIVE KpiLoop(_, _)
KpiLoop(acc, records) ==
    IF records = <<>> THEN acc
    ELSE KpiLoop(AddTaxes(Directional(acc, Head(records)), Head(records)),
                 Tail(records))

\* the place of an item in a list sorted by value, largest first: after every
\* item that is not smaller (sorted() is stable, also with reverse=True)
InsertDesc(sorted, item) ==
    LET pos == Cardinality({i \in 1..Len(sorted) : sorted[i][2] >= item[2]})
    IN  SubSeq(sorted, 1, pos) \o <<item>> \o SubSeq(sorted, pos + 1, Len(sorted))

\* the items left in insertion order
SortedDesc_unsorted(items) == items

\* sorted(items, key=lambda x: x[1], reverse=True)
RECURSIVE SortedDesc(_)
SortedDesc(items) ==
    IF items = <<>> THEN <<>>
    ELSE InsertDesc(SortedDesc(SubSeq(items, 1, Len(items) - 1)), items[Len(items)])

\* xs[:n]
Take(xs, n) == SubSeq(xs, 1, IF Len(xs) < n THEN Len(xs) ELSE n)

\* compute_kpis(cfdis, invalid_count, duplicates_count, cfdi33_count)
compute_kpis(records, invalid, duplicados, cfdi33) ==
    LET acc == KpiLoop(KpiStart, records)
    IN  [total_ingresos |-> acc.total_ingresos,
         total_egresos |-> acc.total_egresos,
         neto |-> acc.total_ingresos - acc.total_egresos,
         iva_trasladado |-> acc.total_iva_trasladado,
         isr_retenido |-> acc.total_isr_retenido,
         iva_retenido |-> acc.total_iva_retenido,
         ieps |-> acc.total_ieps,
         conteo_cfdi |-> acc.count_ingresos + acc.count_egresos,
         ingresos_por_mes |-> acc.ingresos_por_mes,
         egresos_por_mes |-> acc.egresos_por_mes,
         top_clientes |-> Take(SortedDesc(acc.clientes_counter), TopN),
         top_proveedores |-> Take(SortedDesc(acc.proveedores_counter), TopN),
         calidad |-> [invalidos |-> invalid, duplicados |-> duplicados,
                      cfdi33 |-> cfdi33]]

(***************************************************************************)
(* Inputs of the parser                                                    *)
(***************************************************************************)
NoNs == ""                     \* an element in no namespace
U1 == <<"u", "1">>
U2 == <<"u", "2">>
D1 == <<"d", "1">>
D2 == <<"d", "2">>
V33 == <<"3", ".", "3">>
V40 == <<"4", ".", "0">>

NsMaps ==
    { ("cfdi" :> CFD4_URI) @@ ("tfd" :> TFD_URI),   \* as in SAMPLE_CFDI_40
      (NoPrefix :> CFD4_URI),                       \* default namespace only
      ("cfdi" :> CFD3_URI),                         \* 3.3 namespace, tfd undeclared
      ("tfd" :> TFD_URI),                           \* no cfdi and no default namespace
      <<>> }                                        \* no namespace declared at all

Timbres ==
    {None} \cup
    {Some([ns |-> m, UUID |-> u]) : m \in {TFD_URI, CFD4_URI},
                                    u \in {None, Some(<<>>), Some(U1)}}
Complementos ==
    {None} \cup {Some([ns |-> n, timbre |-> t]) : n \in {CFD4_URI, CFD3_URI}, t \in Timbres}

\* attribute strings for amounts
A16  == <<"1", "6">>
A100 == <<"1", "0", "0">>
A116 == <<"1", "1", "6">>
A7sp == <<" ", "7">>           \* float() ignores the surrounding blank
Aneg == <<"-", "5">>
Abad == <<"x">>                \* float() raises ValueError
Acomma == <<"1", ",", "5">>    \* float() raises ValueError

\* 2023-01-31T12:00:00, the Fecha of SAMPLE_CFDI_40
F_JAN == <<"2","0","2","3","-","0","1","-","3","1","T","1","2",":","0","0",":","0","0">>
\* 2023-02-01T08:30:00.5Z
F_FEB == <<"2","0","2","3","-","0","2","-","0","1","T","0","8",":","3","0",":","0","0",
           ".","5","Z">>

\* a Traslado / Retencion element
TaxElem(ns, impuesto, importe) ==
    [ns |-> ns, Impuesto |-> impuesto, Importe |-> importe]
\* an Impuestos element with its two optional lists given as item sequences
TaxList(ns, items) == Some([ns |-> ns, items |-> items])
ImpuestosElem(ns, traslados, retenciones) ==
    Some([ns |-> ns, traslados |-> traslados, retenciones |-> retenciones])

\* a Concepto element without amounts and taxes
PlainConcepto(ns, descripcion) ==
    [ns |-> ns, Descripcion |-> descripcion, Cantidad |-> None,
     ValorUnitario |-> None, Importe |-> None, Descuento |-> None,
     impuestos |-> None]

ConceptoElems == {PlainConcepto(CFD4_URI, d) : d \in {None, Some(D1)}}
ConceptosOpts ==
    {None} \cup
    {Some([ns |-> CFD4_URI, items |-> it]) :
        it \in UNION {[1..n -> ConceptoElems] : n \in 0..MaxConceptos}}

MalformedDoc ==
    [wellFormed |-> FALSE, nsmap |-> <<>>, Version |-> None, version |-> None,
     TipoDeComprobante |-> None, TipoComprobante |-> None, complemento |-> None,
     emisor |-> None, receptor |-> None, conceptos |-> None,
     Fecha |-> None, fecha |-> None, SubTotal |-> None, Descuento |-> None,
     Total |-> None, TipoCambio |-> None, impuestos |-> None]

ParseDocs ==
    {MalformedDoc} \cup
    [wellFormed : {TRUE},
     nsmap : NsMaps,
     Version : {None, Some(V33), Some(V40)},
     version : {None, Some(V33)},
     TipoDeComprobante : {None, Some(<<"I">>), Some(<<"P">>), Some(<<"p">>), Some(<<"E">>)},
     TipoComprobante : {None, Some(<<"P">>)},
     complemento : Complementos,
     emisor : {None, Some([ns |-> CFD4_URI, Rfc |-> Some(<<"A">>)])},
     receptor : {None, Some([ns |-> CFD4_URI, Rfc |-> None])},
     conceptos : ConceptosOpts,
     Fecha : {None}, fecha : {None}, SubTotal : {None}, Descuento : {None},
     Total : {Some(A116)}, TipoCambio : {None}, impuestos : {None}]

(***************************************************************************)
(* Inputs of the classifier                                                *)
(***************************************************************************)
RfcChars == {"A", "a", " "}
RECURSIVE StringsUpTo(_)
StringsUpTo(n) ==
    IF n = 0 THEN {<<>>}
    ELSE LET shorter == StringsUpTo(n - 1)
         IN  shorter \cup {Append(s, c) : s \in shorter, c \in RfcChars}

\* the tax-ids of the sample document of tests/test_parser.py
RFC_AAA == <<"A","A","A","0","1","0","1","0","1","A","A","A">>
RFC_BBB == <<"B","B","B","0","1","0","1","0","1","B","B","B">>

RfcStrings  == StringsUpTo(MaxRfcLen) \cup {RFC_AAA, RFC_BBB}
TipoStrings == {<<"I">>, <<"i">>, <<"E">>, <<"N">>, <<"P">>, <<>>}

\* the fields of models.CFDI that classify_cfdi reads
ClassifierInputs ==
    [tipo: TipoStrings, emisor_rfc: RfcStrings, receptor_rfc: RfcStrings]

Labels == {Ingresos, Egresos, NoClasificado}

\* the same record with issuer and receiver tax-ids exchanged
SwapParties(cfdi) ==
    [cfdi EXCEPT !.emisor_rfc = cfdi.receptor_rfc, !.receptor_rfc = cfdi.emisor_rfc]

\* trim and uppercase, as the classifier normalises tax-ids
Norm(s) == Upper(Strip(s))

(***************************************************************************)
(* app/scanner.py: XMLScanner                                              *)
(***************************************************************************)
\* the Concepto of SAMPLE_CFDI_40: one line-level VAT transfer of 16
SampleConcepto ==
    [ns |-> CFD4_URI, Descripcion |-> Some(D1), Cantidad |-> Some(<<"1">>),
     ValorUnitario |-> Some(A100), Importe |-> Some(A100), Descuento |-> None,
     impuestos |-> ImpuestosElem(CFD4_URI,
                       TaxList(CFD4_URI, <<TaxElem(CFD4_URI, Some(T002), Some(A16))>>),
                       None)]

\* SAMPLE_CFDI_40 of tests/test_parser.py
SampleDoc ==
    [wellFormed |-> TRUE,
     nsmap |-> ("cfdi" :> CFD4_URI) @@ ("tfd" :> TFD_URI),
     Version |-> Some(V40), version |-> None,
     TipoDeComprobante |-> Some(<<"I">>), TipoComprobante |-> None,
     complemento |-> Some([ns |-> CFD4_URI,
                           timbre |-> Some([ns |-> TFD_URI, UUID |-> Some(U1)])]),
     emisor |-> Some([ns |-> CFD4_URI, Rfc |-> Some(RFC_AAA)]),
     receptor |-> Some([ns |-> CFD4_URI, Rfc |-> Some(RFC_BBB)]),
     conceptos |-> Some([ns |-> CFD4_URI, items |-> <<SampleConcepto>>]),
     Fecha |-> Some(F_JAN), fecha |-> None,
     SubTotal |-> Some(A100), Descuento |-> None, Total |-> Some(A116),
     TipoCambio |-> None,
     impuestos |-> ImpuestosElem(CFD4_URI,
                       TaxList(CFD4_URI, <<TaxElem(CFD4_URI, Some(T002), Some(A16))>>),
                       None)]

\* a 3.3 document with another UUID, issued the other way round
LegacyDoc ==
    [SampleDoc EXCEPT
        !.nsmap = ("cfdi" :> CFD3_URI),
        !.Version = Some(V33),
        !.complemento = Some([ns |-> CFD3_URI,
                              timbre |-> Some([ns |-> TFD_URI, UUID |-> Some(U2)])]),
        !.emisor = Some([ns |-> CFD3_URI, Rfc |-> Some(RFC_BBB)]),
        !.receptor = Some([ns |-> CFD3_URI, Rfc |-> Some(RFC_AAA)]),
        !.conceptos = Some([ns |-> CFD3_URI,
                            items |-> <<PlainConcepto(CFD3_URI, Some(D2)),
                                        PlainConcepto(CFD3_URI, Some(D1))>>]),
        !.Fecha = Some(F_FEB),
        !.Total = Some(A100),
        !.impuestos = ImpuestosElem(CFD3_URI, None,
                          TaxList(CFD3_URI, <<TaxElem(CFD3_URI, Some(T001), Some(A16))>>))]

\* another file with the UUID of SampleDoc and different content
SameUuidDoc ==
    [SampleDoc EXCEPT
        !.Version = Some(V33),
        !.emisor = Some([ns |-> CFD4_URI, Rfc |-> Some(RFC_BBB)]),
        !.receptor = Some([ns |-> CFD4_URI, Rfc |-> Some(RFC_AAA)]),
        !.conceptos = Some([ns |-> CFD4_URI,
                            items |-> <<PlainConcepto(CFD4_URI, Some(D2))>>]),
        !.Fecha = None,
        !.Total = Some(A7sp)]

PagoDoc    == [SampleDoc EXCEPT !.TipoDeComprobante = Some(<<"P">>)]
NoStampDoc == [SampleDoc EXCEPT !.complemento = None]

\* well-formed XML whose root declares no namespace at all
NoNamespaceDoc ==
    [SampleDoc EXCEPT
        !.nsmap = <<>>,
        !.complemento = Some([ns |-> NoNs,
                              timbre |-> Some([ns |-> NoNs, UUID |-> Some(U2)])]),
        !.emisor = Some([ns |-> NoNs, Rfc |-> Some(RFC_AAA)]),
        !.receptor = Some([ns |-> NoNs, Rfc |-> Some(RFC_BBB)]),
        !.conceptos = None]

(***************************************************************************)
(* Inputs of the parser: amounts and taxes.  Variations of SAMPLE_CFDI_40  *)
(* in its numeric attributes, its document-level tax lists and its line    *)
(* items.                                                                  *)
(***************************************************************************)
SeqsUpTo(S, n) == UNION {[1..k -> S] : k \in 0..n}

TaxElems ==
    { TaxElem(CFD4_URI, Some(T002), Some(A16)),
      TaxElem(CFD4_URI, Some(T003), Some(A16)),
      TaxElem(CFD4_URI, Some(T002), None),
      TaxElem(CFD3_URI, Some(T002), Some(A16)) }     \* not a cfdi:Traslado

DocTraslados ==
    {None} \cup {TaxList(CFD4_URI, it) : it \in SeqsUpTo(TaxElems, MaxTaxEntries)}
DocRetenciones ==
    { None,
      TaxList(CFD4_URI, <<TaxElem(CFD4_URI, Some(T001), Some(A16)),
                          TaxElem(CFD4_URI, Some(T002), Some(A7sp)),
                          TaxElem(CFD4_URI, Some(T003), Some(A16))>>) }
DocImpuestos ==
    {None} \cup {ImpuestosElem(CFD4_URI, t, r) : t \in DocTraslados, r \in DocRetenciones}

NumConceptos ==
    { PlainConcepto(CFD4_URI, Some(D1)),
      SampleConcepto,
      [SampleConcepto EXCEPT
          !.Cantidad = None, !.ValorUnitario = Some(Abad),
          !.Importe = Some(Acomma), !.Descuento = Some(Aneg),
          !.impuestos = ImpuestosElem(CFD4_URI,
              TaxList(CFD4_URI, <<TaxElem(CFD4_URI, Some(T002), Some(A7sp)),
                                  TaxElem(CFD4_URI, Some(T003), Some(A16))>>),
              TaxList(CFD4_URI, <<TaxElem(CFD4_URI, Some(T001), Some(A16)),
                                  TaxElem(CFD4_URI, Some(T002), Some(A7sp))>>))],
      [SampleConcepto EXCEPT
          !.Importe = Some(<<>>),
          !.impuestos = ImpuestosElem(CFD4_URI,
              TaxList(CFD4_URI, <<TaxElem(CFD4_URI, Some(T002), Some(Abad))>>),
              TaxList(CFD4_URI, <<TaxElem(CFD4_URI, Some(T003), Some(A16))>>))] }

NumConceptosOpts ==
    {None} \cup
    {Some([ns |-> CFD4_URI, items |-> it]) : it \in SeqsUpTo(NumConceptos, MaxConceptos)}

\* SubTotal, Descuento and TipoCambio together
RootAmounts ==
    { <<Some(A100), None, None>>, <<Some(<<>>), Some(Aneg), Some(Acomma)>> }

NumDocs ==
    { [SampleDoc EXCEPT
          !.Total = t, !.SubTotal = a[1], !.Descuento = a[2], !.TipoCambio = a[3],
          !.complemento = c, !.impuestos = i, !.conceptos = cs] :
      t \in {None, Some(A116), Some(Abad)},
      a \in RootAmounts,
      c \in {SampleDoc.complemento, None},
      i \in DocImpuestos,
      cs \in NumConceptosOpts }

ScanDocs  == {SampleDoc, LegacyDoc, SameUuidDoc, PagoDoc, NoStampDoc,
              MalformedDoc, NoNamespaceDoc}
ScanUsers == {RFC_AAA, RFC_BBB, <<>>}

\* parse_cfdi depends on the content of the file only: its result for each
\* of the scan documents
ParsedFile == [doc \in ScanDocs |-> parse_cfdi(doc)]

\* the signals of XMLScanner (lines 37-38)
ProgressEvent(p, i, d, c, t) ==
    [sig |-> "progress", processed |-> p, invalid |-> i, duplicates |-> d,
     cfdi33 |-> c, total |-> t]
FinishedEvent(cs, concepts) ==
    [sig |-> "finished", cfdis |-> cs, concepts |-> concepts]

\* line 69 with the test left out
SeenBefore_never(uuid, seen) == FALSE
\* line 69: cfdi.uuid in uuids_seen
SeenBefore(uuid, seen) == uuid \in seen

\* line 72 with the add left out
AddSeen_forgets(seen, uuid) == seen
\* line 72: uuids_seen.add(cfdi.uuid)
AddSeen(seen, uuid) == seen \cup {uuid}

\* line 59 with the set kept from one run to the next
FreshSeen_keeps(seen) == seen
\* line 59: uuids_seen = set(), whatever an earlier run had seen
FreshSeen(seen) == {}

\* lines 74-75 left out: the record keeps the default of models.CFDI
Classified_never(cfdi, user) == cfdi
\* lines 74-75: cfdi.clasificacion = classify_cfdi(cfdi, self.user_rfc)
Classified(cfdi, user) == [cfdi EXCEPT !.clasificacion = classify_cfdi(cfdi, user)]

\* line 76 without the version test
IsLegacy_always(cfdi) == TRUE
\* line 76: cfdi.version.startswith("3.3")
IsLegacy(cfdi) == StartsWith(cfdi.version, V33)

\* line 79 with the new line items put in front
ConceptsAfter_prepends(all, concepts, keep) == IF keep THEN concepts \o all ELSE all
\* line 79 moved out of the else branch of line 71
ConceptsAfter_unconditional(all, concepts, keep) == all \o concepts
\* concepts_all after one file: line 79 is reached only for a retained record
ConceptsAfter(all, concepts, keep) == IF keep THEN all \o concepts ELSE all

(***************************************************************************)
(* Scanner variables at rest (used by the specifications of the pure       *)
(* functions, which leave the scanner alone)                               *)
(***************************************************************************)
\* MainWindow.__init__ (lines 115-122) and the reset of _on_load_clicked
\* no second XMLScanner was constructed
NoWorker ==
    [pc |-> "none", paths |-> <<>>, files |-> <<>>, total |-> 0, processed |-> 0,
     invalid_count |-> 0, duplicates |-> 0, cfdi33_count |-> 0, uuids_seen |-> {},
     cfdis |-> <<>>, concepts_all |-> <<>>,
     sent |-> {}]   \* history: the positions of its signals among all signals

WinInit ==
    [invalid_count |-> 0, duplicates_count |-> 0, cfdi33_count |-> 0,
     cfdis |-> <<>>, ingresos |-> <<>>, egresos |-> <<>>, concepts |-> <<>>,
     kpis_data |-> <<>>]

ScanIdle ==
    /\ win = WinInit
    /\ files = <<>> /\ user_rfc = <<>> /\ pc = "idle"
    /\ total = 0 /\ processed = 0 /\ invalid_count = 0 /\ duplicates = 0
    /\ cfdi33_count = 0 /\ uuids_seen = {} /\ cfdis = <<>> /\ concepts_all = <<>>
    /\ accepted = <<>> /\ queue = <<>> /\ delivered = <<>>
    /\ run = 0 /\ prev = <<>>
    /\ paths = <<>> /\ w2 = NoWorker
ClIdle == cl_cfdi = <<>> /\ cl_user = <<>> /\ cl_label = "" /\ cl_pc = "idle"
PIdle  == p_doc = <<>> /\ p_result = <<>> /\ p_pc = "idle"
KIdle  == k_cfdis = <<>> /\ k_counts = <<>> /\ k_out = <<>> /\ k_pc = "idle"

(***************************************************************************)
(* SpecClassify: classify_cfdi applied to every input of ClassifierInputs  *)
(***************************************************************************)
InitClassify ==
    /\ ScanIdle /\ PIdle /\ KIdle
    /\ cl_cfdi \in ClassifierInputs
    /\ cl_user \in RfcStrings
    /\ cl_label = ""
    /\ cl_pc = "input"

Classify ==
    /\ cl_pc = "input"
    /\ cl_label' = classify_cfdi(cl_cfdi, cl_user)
    /\ cl_pc' = "done"
    /\ UNCHANGED <<cl_cfdi, cl_user, scanVars, pVars, kVars>>

NextClassify == Classify
SpecClassify == InitClassify /\ [][NextClassify]_vars

(***************************************************************************)
(* Claims about the classifier (checked under SpecClassify)                *)
(***************************************************************************)

C4_SampleLabels ==
    ( /\ cl_pc = "done"
      /\ cl_cfdi.tipo = <<"I">>
      /\ cl_cfdi.emisor_rfc = RFC_AAA
      /\ cl_cfdi.receptor_rfc = RFC_BBB )
    => /\ (cl_user = RFC_BBB => cl_label = Ingresos)
       /\ (cl_user = RFC_AAA => cl_label = Egresos)

\* C5 as stated: the classifier always returns a label, and for every record
\* of type 'I' and every taxpayer id, exchanging issuer and receiver turns
\* Ingresos into Egresos and Egresos into Ingresos.
C5_Original ==
    cl_pc = "done" =>
        /\ cl_label \in Labels
        /\ Upper(cl_cfdi.tipo) = <<"I">> =>
            /\ cl_label = Ingresos =>
                 classify_cfdi(SwapParties(cl_cfdi), cl_user) = Egresos
            /\ cl_label = Egresos =>
                 classify_cfdi(SwapParties(cl_cfdi), cl_user) = Ingresos

\* C5 amended: the classifier always returns one of the three labels, and
\* for every record of type 'I' whose issuer and receiver tax-ids differ
\* after trim and uppercase, exchanging issuer and receiver turns Ingresos
\* into Egresos and Egresos into Ingresos.
C5_SwapFlips ==
    cl_pc = "done" =>
        /\ cl_label \in Labels
        /\ ( /\ Upper(cl_cfdi.tipo) = <<"I">>
             /\ Norm(cl_cfdi.emisor_rfc) # Norm(cl_cfdi.receptor_rfc) ) =>
            /\ cl_label = Ingresos =>
                 classify_cfdi(SwapParties(cl_cfdi), cl_user) = Egresos
            /\ cl_label = Egresos =>
                 classify_cfdi(SwapParties(cl_cfdi), cl_user) = Ingresos

\* C5 witness: an Ingresos label on a type-I record with distinct parties,
\* the issuer matched through trim or uppercase
C5_Witness ==
    /\ cl_pc = "done"
    /\ cl_label = Ingresos
    /\ Norm(cl_cfdi.emisor_rfc) # Norm(cl_cfdi.receptor_rfc)
    /\ cl_cfdi.emisor_rfc # Norm(cl_cfdi.emisor_rfc)

\* C26: classify_cfdi returns 'No clasificado' for every record whenever
\* the taxpayer id is absent, empty, or empty after normalisation (trim,
\* uppercase), also for a type-'I' record whose issuer or receiver tax-id
\* is itself empty.
C26_BlankIdUnclassified ==
    (cl_pc = "done" /\ Norm(cl_user) = <<>>) => cl_label = NoClasificado

(***************************************************************************)
(* SpecParse                                                               *)
(***************************************************************************)
InitParse ==
    /\ ScanIdle /\ ClIdle /\ KIdle
    /\ p_doc \in ParseDocs
    /\ p_result = <<>>
    /\ p_pc = "input"

\* one call parse_cfdi(xml_path): it returns a pair or an exception reaches
\* the caller
Parse ==
    /\ p_pc = "input"
    /\ p_result' = parse_cfdi(p_doc)
    /\ p_pc' = IF p_result'.raised THEN "raised" ELSE "returned"
    /\ UNCHANGED <<p_doc, scanVars, clVars, kVars>>

NextParse == Parse
SpecParse == InitParse /\ [][NextParse]_vars

(***************************************************************************)
(* Claims about the parser (checked under SpecParse)                       *)
(***************************************************************************)

\* C9 as stated: for every input file parse_cfdi returns the rejection
\* result or (record, line items), and no exception reaches the caller.
C9_NoException ==
    p_pc # "input" =>
        /\ p_pc = "returned"
        /\ \/ p_result = Rejected
           \/ p_result.cfdi # None

\* the document-type attribute, read as lines 48-49 read it, is 'P' or 'p'
DeclaredPago(doc) ==
    \/ doc.TipoDeComprobante \in {Some(<<"P">>), Some(<<"p">>)}
    \/ /\ doc.TipoDeComprobante \in {None, Some(<<>>)}
       /\ doc.TipoComprobante \in {Some(<<"P">>), Some(<<"p">>)}

\* C10: a document whose document-type attribute resolves, case-
\* insensitively, to 'P' gets the rejection result (None, []) whatever the
\* rest of its content.
C10_PagoRejected ==
    (p_pc # "input" /\ p_doc.wellFormed /\ DeclaredPago(p_doc)) =>
        /\ p_pc = "returned"
        /\ p_result = Rejected

\* C10 witness: a rejected lower-case 'p' document that carries a stamp UUID
\* the parser would find
C10_Witness ==
    /\ p_pc = "returned"
    /\ p_doc.wellFormed
    /\ p_doc.TipoDeComprobante = Some(<<"p">>)
    /\ PrefixBound("cfdi", BuildNsmap(p_doc.nsmap))
    /\ Truthy(FindUUID(p_doc, BuildNsmap(p_doc.nsmap)))
    /\ p_result = Rejected

\* C11 as stated: when the Complemento block, the TimbreFiscalDigital node
\* or its UUID attribute is missing or empty, parse_cfdi returns (None, []),
\* and no returned record has an absent or empty UUID.
C11_NoUuidRejected ==
    /\ (/\ p_pc # "input"
        /\ p_doc.wellFormed
        /\ \/ p_doc.complemento = None
           \/ p_doc.complemento[1].timbre = None
           \/ p_doc.complemento[1].timbre[1].UUID \in {None, Some(<<>>)})
       => (p_pc = "returned" /\ p_result = Rejected)
    /\ (p_pc = "returned" /\ p_result.cfdi # None)
       => p_result.cfdi[1].uuid # <<>>

\* the version string as line 46 reads it
VersionOf(doc) == OrEmpty(PyOr(PyOr(doc.Version, doc.version), Some(<<>>)))

\* the parser finds a stamp UUID in the document and its type is not P
Acceptable(doc) ==
    /\ doc.wellFormed
    /\ ~DeclaredPago(doc)
    /\ PrefixBound("cfdi", BuildNsmap(doc.nsmap))
    /\ Truthy(FindUUID(doc, BuildNsmap(doc.nsmap)))

\* C17: a document whose version string starts with '3.3', that has a UUID
\* and is not of type P, is accepted with exactly one warning, the legacy
\* notice; a document with any other version string is returned with an
\* empty warnings list.
C17_LegacyWarning ==
    /\ (p_pc # "input" /\ Acceptable(p_doc) /\ StartsWith(VersionOf(p_doc), V33))
       => /\ p_pc = "returned"
          /\ p_result.cfdi # None
          /\ p_result.cfdi[1].warnings = <<Warn33>>
    /\ (p_pc = "returned" /\ p_result.cfdi # None /\ ~StartsWith(VersionOf(p_doc), V33))
       => p_result.cfdi[1].warnings = <<>>

\* C17 witness: an accepted document whose version comes from the lower-case
\* attribute and carries the one warning
C17_Witness ==
    /\ p_pc = "returned"
    /\ p_doc.Version = None
    /\ p_doc.version = Some(V33)
    /\ p_result.cfdi # None
    /\ Len(p_result.cfdi[1].warnings) = 1

(***************************************************************************)
(* SpecParseNum: parse_cfdi applied to every document of NumDocs           *)
(***************************************************************************)
InitParseNum ==
    /\ ScanIdle /\ ClIdle /\ KIdle
    /\ p_doc \in NumDocs
    /\ p_result = <<>>
    /\ p_pc = "input"

NextParseNum == Parse
SpecParseNum == InitParseNum /\ [][NextParseNum]_vars

(***************************************************************************)
(* Claims about amounts and taxes (checked under SpecParseNum)             *)
(***************************************************************************)
\* the attribute is absent or float() does not accept it
NotANumber(attr) == attr = None \/ ~FloatAccepts(attr[1])

\* the items of an optional list element
ItemsOf(listOpt) == IF listOpt = None THEN <<>> ELSE listOpt[1].items
\* the Traslado elements under an optional Impuestos element
TrasladoElems(impuestos) ==
    IF impuestos = None THEN <<>> ELSE ItemsOf(impuestos[1].traslados)

RECURSIVE VatOf(_)
VatOf(elems) ==
    IF elems = <<>> THEN 0
    ELSE LET e == Head(elems)
             amount == IF e.ns = CFD4_URI /\ e.Impuesto = Some(T002)
                          /\ ~NotANumber(e.Importe)
                       THEN FloatOf(e.Importe[1]) ELSE 0
         IN  amount + VatOf(Tail(elems))
RECURSIVE LineVatOf(_)
LineVatOf(conceptoElems) ==
    IF conceptoElems = <<>> THEN 0
    ELSE VatOf(TrasladoElems(Head(conceptoElems).impuestos))
         + LineVatOf(Tail(conceptoElems))

\* C18: the record's transferred-VAT total is the sum of the document-level
\* transfer entries with tax code '002' plus the sum of the line-item
\* transfer entries with tax code '002'; for the sample document (16 at
\* document level, 16 at line level) it is 32.
C18_VatAdded ==
    (p_pc = "returned" /\ p_result.cfdi # None) =>
        /\ p_result.cfdi[1].iva_trasladado =
               VatOf(TrasladoElems(p_doc.impuestos))
               + LineVatOf(ItemsOf(p_doc.conceptos))
        /\ p_doc = SampleDoc => p_result.cfdi[1].iva_trasladado = 32

\* C18 witness: two document-level VAT entries and one line-level VAT entry,
\* all of them added
C18_Witness ==
    /\ p_pc = "returned"
    /\ p_result.cfdi # None
    /\ TrasladoElems(p_doc.impuestos) =
           <<TaxElem(CFD4_URI, Some(T002), Some(A16)),
             TaxElem(CFD4_URI, Some(T002), Some(A16))>>
    /\ ItemsOf(p_doc.conceptos) = <<SampleConcepto>>
    /\ p_result.cfdi[1].iva_trasladado = 48

\* the Retencion elements under an optional Impuestos element
RetencionElems(impuestos) ==
    IF impuestos = None THEN <<>> ELSE ItemsOf(impuestos[1].retenciones)

\* the sum of the amounts of the cfdi: entries of a list with one tax code
RECURSIVE AmountOf(_, _)
AmountOf(elems, code) ==
    IF elems = <<>> THEN 0
    ELSE LET e == Head(elems)
             amount == IF e.ns = CFD4_URI /\ e.Impuesto = Some(code)
                          /\ ~NotANumber(e.Importe)
                       THEN FloatOf(e.Importe[1]) ELSE 0
         IN  amount + AmountOf(Tail(elems), code)

\* the four tax totals of a record
TaxTotals(c) == <<c.iva_trasladado, c.isr_retenido, c.iva_retenido, c.ieps>>

\* the document without its document-level entries of codes '001' and '003'
DropNonVat(listOpt) ==
    IF listOpt = None THEN None
    ELSE Some([listOpt[1] EXCEPT
                  !.items = SelectSeq(@, LAMBDA t : t.Impuesto \notin {Some(T001), Some(T003)})])
OnlyDocVat(doc) ==
    IF doc.impuestos = None THEN doc
    ELSE [doc EXCEPT !.impuestos =
             Some([@[1] EXCEPT !.traslados = DropNonVat(@),
                               !.retenciones = DropNonVat(@)])]
\* the document without its document-level Traslado entries of '001', '003'
OnlyVatTraslados(doc) ==
    IF doc.impuestos = None THEN doc
    ELSE [doc EXCEPT !.impuestos = Some([@[1] EXCEPT !.traslados = DropNonVat(@)])]
\* the document without its document-level Impuestos element
LinesOnly(doc) == [doc EXCEPT !.impuestos = None]

\* C25 as stated: at document level only VAT ('002') is read: a
\* document-level transferred or withheld entry with code '001' or '003'
\* contributes nothing to any of the four tax totals; the ISR and excise
\* totals come only from the line-item tax nodes.
C25_OnlyVatAtDocLevel ==
    (p_pc = "returned" /\ p_result.cfdi # None) =>
        /\ TaxTotals(p_result.cfdi[1]) = TaxTotals(parse_cfdi(OnlyDocVat(p_doc)).cfdi[1])
        /\ p_result.cfdi[1].isr_retenido = parse_cfdi(LinesOnly(p_doc)).cfdi[1].isr_retenido
        /\ p_result.cfdi[1].ieps = parse_cfdi(LinesOnly(p_doc)).cfdi[1].ieps

\* C25 amended: of the document-level Traslado entries only those with code
\* '002' are read (into the transferred-VAT total); the document-level
\* Retencion entries are read for all three codes: '001' adds to the ISR
\* total, '002' to the withheld-VAT total and '003' to the excise total,
\* each on top of what the line items contribute.
C25_DocLevelTaxes ==
    (p_pc = "returned" /\ p_result.cfdi # None) =>
        LET c     == p_result.cfdi[1]
            lines == parse_cfdi(LinesOnly(p_doc)).cfdi[1]
            tras  == TrasladoElems(p_doc.impuestos)
            ret   == RetencionElems(p_doc.impuestos)
        IN  /\ TaxTotals(c) = TaxTotals(parse_cfdi(OnlyVatTraslados(p_doc)).cfdi[1])
            /\ c.iva_trasladado = lines.iva_trasladado + AmountOf(tras, T002)
            /\ c.isr_retenido = lines.isr_retenido + AmountOf(ret, T001)
            /\ c.iva_retenido = lines.iva_retenido + AmountOf(ret, T002)
            /\ c.ieps = lines.ieps + AmountOf(ret, T003)

\* C25 witness: document-level retentions of the three codes and a
\* document-level excise transfer, without line items
C25_Witness ==
    /\ p_pc = "returned"
    /\ p_result.cfdi # None
    /\ p_doc.conceptos = None
    /\ TrasladoElems(p_doc.impuestos) =
           <<TaxElem(CFD4_URI, Some(T003), Some(A16)),
             TaxElem(CFD4_URI, Some(T002), Some(A16))>>
    /\ Len(RetencionElems(p_doc.impuestos)) = 3
    /\ TaxTotals(p_result.cfdi[1]) = <<16, 16, 7, 16>>

(***************************************************************************)
(* Inputs of compute_kpis                                                  *)
(***************************************************************************)
\* the records parsed from three of the scan documents, under each label
\* the scanner can write on them
KpiRecords ==
    { [ParsedFile[doc].cfdi[1] EXCEPT !.clasificacion = label] :
          doc \in {SampleDoc, LegacyDoc, SameUuidDoc}, label \in Labels }
KpiLists == SeqsUpTo(KpiRecords, MaxKpiRecords)

\* invalid, duplicate and legacy counts handed over by the caller
NoCounts  == <<0, 0, 0>>
KpiCounts == {NoCounts, <<2, 1, 1>>}

\* the tax-id of the i-th counterparty
Party(i) == <<"R", DigitChar(i)>>

\* lists of MaxRankRecords records of one direction: the i-th record has a
\* total of 1 or 2 and deals with the i-th or with the first counterparty
RankLists ==
    { [i \in 1..MaxRankRecords |->
          [ParsedFile[SampleDoc].cfdi[1] EXCEPT
              !.clasificacion = side,
              !.total = amounts[i],
              !.emisor_rfc = Party(parties[i]),
              !.receptor_rfc = Party(parties[i])]] :
      side \in {Ingresos, Egresos},
      amounts \in [1..MaxRankRecords -> {1, 2}],
      parties \in {f \in [1..MaxRankRecords -> 1..MaxRankRecords] :
                      \A i \in 1..MaxRankRecords : f[i] \in {1, i}} }

(***************************************************************************)
(* SpecKpis: compute_kpis applied to every list of KpiLists and RankLists  *)
(***************************************************************************)
InitKpis ==
    /\ ScanIdle /\ ClIdle /\ PIdle
    /\ k_cfdis \in KpiLists \cup RankLists
    /\ k_counts \in KpiCounts
    /\ (Len(k_cfdis) > MaxKpiRecords => k_counts = NoCounts)
    /\ k_out = <<>>
    /\ k_pc = "input"

\* one call compute_kpis(cfdis, invalid_count, duplicates_count, cfdi33_count)
ComputeKpis ==
    /\ k_pc = "input"
    /\ k_out' = compute_kpis(k_cfdis, k_counts[1], k_counts[2], k_counts[3])
    /\ k_pc' = "done"
    /\ UNCHANGED <<k_cfdis, k_counts, scanVars, clVars, pVars>>

NextKpis == ComputeKpis
SpecKpis == InitKpis /\ [][NextKpis]_vars

(***************************************************************************)
(* Claims about compute_kpis (checked under SpecKpis)                      *)
(***************************************************************************)
WithLabel(records, label) == SelectSeq(records, LAMBDA c : c.clasificacion = label)

SumOf(records, F(_)) == SumSeq([i \in 1..Len(records) |-> F(records[i])])
TotalOf(c) == c.total

\* C13: compute_kpis returns a snapshot with neto equal to total_ingresos
\* minus total_egresos and conteo_cfdi equal to the number of records
\* classified Income plus the number classified Expense; Unclassified
\* records are not counted.
C13_NetoAndCount ==
    k_pc = "done" =>
        /\ k_out.neto = k_out.total_ingresos - k_out.total_egresos
        /\ k_out.total_ingresos = SumOf(WithLabel(k_cfdis, Ingresos), TotalOf)
        /\ k_out.total_egresos = SumOf(WithLabel(k_cfdis, Egresos), TotalOf)
        /\ k_out.conteo_cfdi =
               Len(WithLabel(k_cfdis, Ingresos)) + Len(WithLabel(k_cfdis, Egresos))

\* C13 witness: a list with an Income, an Expense and an Unclassified record
C13_Witness ==
    /\ k_pc = "done"
    /\ Len(k_cfdis) = 3
    /\ k_cfdis[1].clasificacion = NoClasificado
    /\ k_cfdis[2].clasificacion = Ingresos
    /\ k_cfdis[3].clasificacion = Egresos
    /\ k_out.conteo_cfdi = 2
    /\ k_out.neto < 0

\* the counterparty of a record in the ranking of a direction
PartyOf(c, label) == IF label = Ingresos THEN c.receptor_rfc ELSE c.emisor_rfc
PartiesOf(records, label) ==
    {PartyOf(records[i], label) :
        i \in {j \in 1..Len(records) : records[j].clasificacion = label}}
PartySum(records, label, party) ==
    SumOf(SelectSeq(WithLabel(records, label), LAMBDA c : PartyOf(c, label) = party),
          TotalOf)

\* a ranking of the counterparties of one direction
RankingOf(top, records, label) ==
    LET parties == PartiesOf(records, label)
        listed  == {top[i][1] : i \in 1..Len(top)}
    IN  /\ Len(top) <= 5
        /\ Len(top) = IF Cardinality(parties) < 5 THEN Cardinality(parties) ELSE 5
        /\ \A i, j \in 1..Len(top) : i < j =>
              top[i][2] >= top[j][2] /\ top[i][1] # top[j][1]
        /\ \A i \in 1..Len(top) :
              /\ top[i][1] \in parties
              /\ top[i][2] = PartySum(records, label, top[i][1])
        /\ \A q \in parties \ listed : \A i \in 1..Len(top) :
              PartySum(records, label, q) <= top[i][2]

\* C14: top_clientes and top_proveedores each have at most 5 entries, are
\* ordered non-increasing by summed total and hold the counterparties with
\* the largest sums: no counterparty left out has a larger sum than one
\* included.
C14_Rankings ==
    k_pc = "done" =>
        /\ RankingOf(k_out.top_clientes, k_cfdis, Ingresos)
        /\ RankingOf(k_out.top_proveedores, k_cfdis, Egresos)

\* C14 witness: six customers, five of them listed, the first record's
\* customer not at the head of the ranking
C14_Witness ==
    /\ k_pc = "done"
    /\ Cardinality(PartiesOf(k_cfdis, Ingresos)) >= 6
    /\ Len(k_out.top_clientes) = 5
    /\ k_out.top_clientes[1][2] > k_out.top_clientes[5][2]
    /\ k_out.top_clientes[1][1] # k_cfdis[1].receptor_rfc

IvaOf(c)  == c.iva_trasladado
IsrOf(c)  == c.isr_retenido
IvaRetOf(c) == c.iva_retenido
IepsOf(c) == c.ieps

\* C15: every record, whatever its classification, adds its four tax totals
\* to the grand tax totals, while a record classified 'No clasificado' adds
\* nothing to total_ingresos, total_egresos, the monthly series, the
\* counterparty sums or conteo_cfdi.
C15_TaxesUngated ==
    k_pc = "done" =>
        LET classified == SelectSeq(k_cfdis, LAMBDA c : c.clasificacion # NoClasificado)
            without    == compute_kpis(classified, k_counts[1], k_counts[2], k_counts[3])
        IN  /\ k_out.iva_trasladado = SumOf(k_cfdis, IvaOf)
            /\ k_out.isr_retenido = SumOf(k_cfdis, IsrOf)
            /\ k_out.iva_retenido = SumOf(k_cfdis, IvaRetOf)
            /\ k_out.ieps = SumOf(k_cfdis, IepsOf)
            /\ k_out.total_ingresos = without.total_ingresos
            /\ k_out.total_egresos = without.total_egresos
            /\ k_out.ingresos_por_mes = without.ingresos_por_mes
            /\ k_out.egresos_por_mes = without.egresos_por_mes
            /\ k_out.top_clientes = without.top_clientes
            /\ k_out.top_proveedores = without.top_proveedores
            /\ k_out.conteo_cfdi = without.conteo_cfdi

\* C15 witness: the sample record alone, unclassified: its VAT of 32 is in
\* the grand total and nothing else is
C15_Witness ==
    /\ k_pc = "done"
    /\ Len(k_cfdis) = 1
    /\ k_cfdis[1].clasificacion = NoClasificado
    /\ k_cfdis[1].total = 116
    /\ k_out.iva_trasladado = 32
    /\ k_out.total_ingresos = 0 /\ k_out.total_egresos = 0
    /\ k_out.conteo_cfdi = 0
    /\ k_out.ingresos_por_mes = <<>> /\ k_out.top_clientes = <<>>

\* m is the key of the month of an issue date: "YYYY-MM", "" without a date
KeyMatches(m, fecha) ==
    IF fecha = None THEN m = <<>>
    ELSE /\ Len(m) = 7
         /\ m[5] = "-"
         /\ AllDigits(SubSeq(m, 1, 4)) /\ AllDigits(SubSeq(m, 6, 7))
         /\ DecimalValue(SubSeq(m, 1, 4)) = fecha[1].year
         /\ DecimalValue(SubSeq(m, 6, 7)) = fecha[1].month

\* a monthly series of the totals of these records
SeriesOf(series, records) ==
    /\ \A i, j \in 1..Len(series) : i # j => series[i][1] # series[j][1]
    /\ \A i \in 1..Len(series) :
          LET inMonth == SelectSeq(records, LAMBDA c : KeyMatches(series[i][1], c.fecha))
          IN  inMonth # <<>> /\ series[i][2] = SumOf(inMonth, TotalOf)
    /\ \A k \in 1..Len(records) :
          \E i \in 1..Len(series) : KeyMatches(series[i][1], records[k].fecha)

\* C23: for every month key m, ingresos_por_mes[m] (egresos_por_mes[m]) is
\* the sum of the totals of the Income (Expense) records issued in month m,
\* records without an issue date being summed under the empty-string key;
\* the values of each series add up to total_ingresos (total_egresos).
C23_MonthlySeries ==
    k_pc = "done" =>
        /\ SeriesOf(k_out.ingresos_por_mes, WithLabel(k_cfdis, Ingresos))
        /\ SeriesOf(k_out.egresos_por_mes, WithLabel(k_cfdis, Egresos))
        /\ SumSeq([i \in 1..Len(k_out.ingresos_por_mes) |-> k_out.ingresos_por_mes[i][2]])
              = k_out.total_ingresos
        /\ SumSeq([i \in 1..Len(k_out.egresos_por_mes) |-> k_out.egresos_por_mes[i][2]])
              = k_out.total_egresos

\* C23 witness: two Income records of January 2023 and one without a date
C23_Witness ==
    /\ k_pc = "done"
    /\ Len(k_cfdis) = 3
    /\ k_out.ingresos_por_mes =
           << <<<<"2", "0", "2", "3", "-", "0", "1">>, 232>>, <<<<>>, 7>> >>
    /\ k_out.total_ingresos = 239

\* the entries of a ranking are the sums of the totals of the records of one
\* direction, by the tax-id that Key reads from them
EmisorOf(c) == c.emisor_rfc
ReceptorOf(c) == c.receptor_rfc
KeyedSums(top, records, Key(_)) ==
    \A i \in 1..Len(top) :
        LET same == SelectSeq(records, LAMBDA c : Key(c) = top[i][1])
        IN  same # <<>> /\ top[i][2] = SumOf(same, TotalOf)

\* C24: the customer ranking is keyed by the receiver tax-id of Income
\* records and the supplier ranking by the issuer tax-id of Expense
\* records, each amount being the sum of the totals of the records with
\* that tax-id; no Income record contributes to top_proveedores and no
\* Expense record to top_clientes.
C24_RankingKeys ==
    k_pc = "done" =>
        LET income   == WithLabel(k_cfdis, Ingresos)
            expense  == WithLabel(k_cfdis, Egresos)
            noIncome == SelectSeq(k_cfdis, LAMBDA c : c.clasificacion # Ingresos)
            noExpense == SelectSeq(k_cfdis, LAMBDA c : c.clasificacion # Egresos)
        IN  /\ KeyedSums(k_out.top_clientes, income, ReceptorOf)
            /\ KeyedSums(k_out.top_proveedores, expense, EmisorOf)
            /\ k_out.top_proveedores =
                  compute_kpis(noIncome, k_counts[1], k_counts[2], k_counts[3]).top_proveedores
            /\ k_out.top_clientes =
                  compute_kpis(noExpense, k_counts[1], k_counts[2], k_counts[3]).top_clientes

\* C24 witness: the sample record as Income and the legacy record as
\* Expense: the customer is the sample's receiver, the supplier the legacy
\* record's issuer
C24_Witness ==
    /\ k_pc = "done"
    /\ Len(k_cfdis) = 2
    /\ k_cfdis[1].clasificacion = Ingresos /\ k_cfdis[1].emisor_rfc = RFC_AAA
    /\ k_cfdis[2].clasificacion = Egresos /\ k_cfdis[2].emisor_rfc = RFC_BBB
    /\ k_out.top_clientes = << <<RFC_BBB, 116>> >>
    /\ k_out.top_proveedores = << <<RFC_BBB, 100>> >>

(***************************************************************************)
(* Spec: one batch run of XMLScanner and the delivery of its signals       *)
(***************************************************************************)
Init ==
    /\ ClIdle /\ PIdle /\ KIdle
    /\ files \in UNION {[1..n -> ScanDocs] : n \in 0..MaxFiles}
    /\ user_rfc \in ScanUsers
    /\ pc = "ready"
    /\ total = 0 /\ processed = 0 /\ invalid_count = 0 /\ duplicates = 0
    /\ cfdi33_count = 0 /\ uuids_seen = {} /\ cfdis = <<>> /\ concepts_all = <<>>
    /\ accepted = <<>> /\ queue = <<>> /\ delivered = <<>>
    /\ win = WinInit
    /\ run = 1 /\ prev = <<>>
    /\ paths = <<>> /\ w2 = NoWorker

\* start() and lines 53-61 of _run
Start ==
    /\ pc = "ready"
    /\ pc' = "loop"
    /\ total' = Len(files)
    /\ processed' = 0 /\ invalid_count' = 0 /\ duplicates' = 0 /\ cfdi33_count' = 0
    /\ uuids_seen' = FreshSeen(uuids_seen) /\ cfdis' = <<>> /\ concepts_all' = <<>>
    /\ UNCHANGED <<files, user_rfc, accepted, queue, delivered, win, run, prev, paths, w2, clVars, pVars, kVars>>

\* one iteration of the loop of _run (lines 63-82).  An exception raised by
\* parse_cfdi is not caught: it leaves _run before anything is emitted.
ProcessFile ==
    /\ pc = "loop"
    /\ processed < total
    /\ LET idx == processed + 1
           r   == ParsedFile[files[idx]]
       IN  IF r.raised
           THEN /\ pc' = "crashed"
                /\ UNCHANGED <<processed, invalid_count, duplicates, cfdi33_count,
                               uuids_seen, cfdis, concepts_all, accepted, queue>>
           ELSE LET isNone == r.cfdi = None
                    cfdi   == r.cfdi[1]
                    dup    == ~isNone /\ SeenBefore(cfdi.uuid, uuids_seen)
                    keep   == ~isNone /\ ~dup
                    inv2   == IF isNone THEN invalid_count + 1 ELSE invalid_count
                    dup2   == IF dup THEN duplicates + 1 ELSE duplicates
                    c33    == IF keep /\ IsLegacy(cfdi)
                              THEN cfdi33_count + 1 ELSE cfdi33_count
               IN  /\ pc' = pc
                   /\ invalid_count' = inv2
                   /\ duplicates' = dup2
                   /\ cfdi33_count' = c33
                   /\ uuids_seen' = IF keep THEN AddSeen(uuids_seen, cfdi.uuid)
                                    ELSE uuids_seen
                   /\ cfdis' = IF keep
                               THEN Append(cfdis, Classified(cfdi, user_rfc))
                               ELSE cfdis
                   /\ concepts_all' = ConceptsAfter(concepts_all, r.concepts, keep)
                   /\ accepted' = IF isNone THEN accepted ELSE Append(accepted, cfdi)
                   /\ processed' = idx
                   /\ queue' = Append(queue, ProgressEvent(idx, inv2, dup2, c33, total))
    /\ UNCHANGED <<files, user_rfc, total, delivered, win, run, prev, paths, w2, clVars, pVars, kVars>>

\* lines 84-88 of _run
Finish ==
    /\ pc = "loop"
    /\ processed = total
    /\ queue' = Append(queue, FinishedEvent(cfdis, concepts_all))
    /\ pc' = "done"
    /\ UNCHANGED <<files, user_rfc, total, processed, invalid_count, duplicates,
                   cfdi33_count, uuids_seen, cfdis, concepts_all, accepted,
                   delivered, win, run, prev, paths, w2, clVars, pVars, kVars>>

\* the queued connection of scanner.progress to MainWindow._on_scan_progress
DeliverProgress ==
    /\ queue # <<>>
    /\ Head(queue).sig = "progress"
    /\ delivered' = Append(delivered, Head(queue))
    /\ queue' = Tail(queue)
    /\ win' = [win EXCEPT !.invalid_count = Head(queue).invalid,
                          !.duplicates_count = Head(queue).duplicates,
                          !.cfdi33_count = Head(queue).cfdi33]
    /\ UNCHANGED <<files, user_rfc, pc, total, processed, invalid_count, duplicates,
                   cfdi33_count, uuids_seen, cfdis, concepts_all, accepted,
                   run, prev, paths, w2, clVars, pVars, kVars>>

\* the queued connection of scanner.finished to MainWindow._on_scan_finished
DeliverFinished ==
    /\ queue # <<>>
    /\ Head(queue).sig = "finished"
    /\ delivered' = Append(delivered, Head(queue))
    /\ queue' = Tail(queue)
    /\ win' = [win EXCEPT
                   !.cfdis = Head(queue).cfdis,
                   !.concepts = Head(queue).concepts,
                   !.ingresos = SelectSeq(Head(queue).cfdis,
                                          LAMBDA c : c.clasificacion = Ingresos),
                   !.egresos = SelectSeq(Head(queue).cfdis,
                                         LAMBDA c : c.clasificacion = Egresos),
                   !.kpis_data = compute_kpis(Head(queue).cfdis, win.invalid_count,
                                              win.duplicates_count, win.cfdi33_count)]
    /\ UNCHANGED <<files, user_rfc, pc, total, processed, invalid_count, duplicates,
                   cfdi33_count, uuids_seen, cfdis, concepts_all, accepted,
                   run, prev, paths, w2, clVars, pVars, kVars>>

Next == Start \/ ProcessFile \/ Finish \/ DeliverProgress \/ DeliverFinished
Spec == Init /\ [][Next]_vars

\* _run has ended, by returning or by an exception
WorkerStopped == pc \in {"done", "crashed"}

\* what a scan has produced once its worker has stopped and its signals are
\* delivered
Outcome ==
    [ended |-> pc, cfdis |-> cfdis, concepts |-> concepts_all,
     invalid |-> invalid_count, duplicates |-> duplicates, cfdi33 |-> cfdi33_count,
     signals |-> delivered, win |-> win]

(***************************************************************************)
(* SpecRerun: a scan, and after it a second scan of the same files with    *)
(* the same taxpayer id                                                    *)
(***************************************************************************)
\* _on_load_clicked with the same paths (lines 547-564) and the construction
\* of the new XMLScanner, once the first scan is over
Rerun ==
    /\ run = 1
    /\ WorkerStopped
    /\ queue = <<>>
    /\ prev' = Outcome
    /\ run' = 2
    /\ win' = [win EXCEPT !.cfdis = <<>>, !.concepts = <<>>]
    /\ pc' = "ready"
    /\ accepted' = <<>>
    /\ delivered' = <<>>
    /\ UNCHANGED <<files, user_rfc, total, processed, invalid_count, duplicates,
                   cfdi33_count, uuids_seen, cfdis, concepts_all, queue,
                   paths, w2, clVars, pVars, kVars>>

NextRerun == Start \/ ProcessFile \/ Finish \/ DeliverProgress \/ DeliverFinished \/ Rerun
SpecRerun == Init /\ [][NextRerun]_vars

\* every signal the worker has emitted so far, in emission order
Emitted == delivered \o queue
ProgressOf(evs) == SelectSeq(evs, LAMBDA e : e.sig = "progress")
FinishedOf(evs) == SelectSeq(evs, LAMBDA e : e.sig = "finished")
(***************************************************************************)
(* Claims about the batch run (checked under Spec)                         *)
(***************************************************************************)
UuidsOf(records) == {records[k].uuid : k \in 1..Len(records)}
NoRepeatedUuid(records) ==
    \A i, j \in 1..Len(records) : i # j => records[i].uuid # records[j].uuid

\* C1: in the record list emitted at the completion of a batch run no two
\* records have the same UUID.
C1_UniqueUuids ==
    \A k \in 1..Len(Emitted) :
        Emitted[k].sig = "finished" => NoRepeatedUuid(Emitted[k].cfdis)

\* C1 witness: a completed run that met a repeated UUID and still emitted
\* two records
C1_Witness ==
    /\ pc = "done"
    /\ duplicates >= 1
    /\ Len(FinishedOf(Emitted)) = 1
    /\ Len(FinishedOf(Emitted)[1].cfdis) = 2

\* C2: when a batch run completes, the duplicate counter equals the number
\* of files the parser accepted minus the number of distinct UUIDs among
\* them, and the result holds one record per distinct UUID; two accepted
\* files with the same UUID give one record and a duplicate count of 1.
C2_DuplicateCount ==
    pc = "done" =>
        /\ duplicates = Len(accepted) - Cardinality(UuidsOf(accepted))
        /\ Len(cfdis) = Cardinality(UuidsOf(accepted))
        /\ FinishedOf(Emitted) = <<FinishedEvent(cfdis, concepts_all)>>
        /\ (Len(accepted) = 2 /\ accepted[1].uuid = accepted[2].uuid) =>
              (Len(cfdis) = 1 /\ duplicates = 1)

\* C2 witness: a completed run in which exactly two files were accepted,
\* different in content and equal in UUID
C2_Witness ==
    /\ pc = "done"
    /\ Len(accepted) = 2
    /\ accepted[1].uuid = accepted[2].uuid
    /\ accepted[1] # accepted[2]
    /\ duplicates = 1
    /\ Len(cfdis) = 1

\* C6 as stated: the progress event is emitted exactly once per enumerated
\* file, right after that file was handled and in traversal order (the k-th
\* event has processed = k), and invalid, duplicates and legacy never
\* decrease from one event to the next.
C6_ProgressPerFile ==
    LET pr == ProgressOf(Emitted)
    IN  /\ \A k \in 1..Len(pr) : pr[k].processed = k
        /\ \A k \in 2..Len(pr) :
              /\ pr[k].invalid >= pr[k-1].invalid
              /\ pr[k].duplicates >= pr[k-1].duplicates
              /\ pr[k].cfdi33 >= pr[k-1].cfdi33
        /\ Len(pr) = processed
        /\ WorkerStopped => Len(pr) = Len(files)

\* C7 as stated: the completion event is emitted exactly once in every
\* batch run and nothing is emitted or delivered after it.
C7_FinishedOnceLast ==
    /\ Len(FinishedOf(Emitted)) <= 1
    /\ \A k \in 1..Len(Emitted) :
          Emitted[k].sig = "finished" => k = Len(Emitted)
    /\ \A k \in 1..Len(delivered) :
          delivered[k].sig = "finished" => k = Len(delivered)
    /\ WorkerStopped => Len(FinishedOf(Emitted)) = 1

\* C8 as stated: whatever the files contain, a file the parser cannot turn
\* into a record is counted as invalid, every later file is processed, and
\* the completion event is emitted.
C8_NeverAborts ==
    WorkerStopped =>
        /\ processed = Len(files)
        /\ invalid_count + Len(accepted) = Len(files)
        /\ \E k \in 1..Len(Emitted) : Emitted[k].sig = "finished"

\* the position among the handled files of the first accepted file with
\* this UUID
FirstFileOf(uuid) ==
    CHOOSE i \in 1..processed :
        /\ ParsedFile[files[i]].cfdi # None
        /\ ParsedFile[files[i]].cfdi[1].uuid = uuid
        /\ \A j \in 1..(i - 1) :
              \/ ParsedFile[files[j]].cfdi = None
              \/ ParsedFile[files[j]].cfdi[1].uuid # uuid

RECURSIVE Flatten(_)
Flatten(seqs) == IF seqs = <<>> THEN <<>> ELSE Head(seqs) \o Flatten(Tail(seqs))

\* C19: when several accepted files of one run carry the same UUID, the
\* record kept (with its classification and its line items) is the one
\* parsed from the first such file in traversal order; records and line
\* items of later occurrences never appear in the emitted lists.
C19_FirstWins ==
    LET first(k) == ParsedFile[files[FirstFileOf(cfdis[k].uuid)]]
    IN  /\ \A k \in 1..Len(cfdis) :
              cfdis[k] = [first(k).cfdi[1] EXCEPT
                             !.clasificacion = classify_cfdi(first(k).cfdi[1], user_rfc)]
        /\ concepts_all = Flatten([k \in 1..Len(cfdis) |-> first(k).concepts])
        /\ \A k \in 1..Len(Emitted) :
              Emitted[k].sig = "finished" =>
                  /\ Emitted[k].cfdis = cfdis
                  /\ Emitted[k].concepts = concepts_all

\* C19 witness: a completed run over the sample document followed by a
\* different document with the same UUID
C19_Witness ==
    /\ pc = "done"
    /\ Len(files) >= 2
    /\ files[1] = SampleDoc
    /\ files[2] = SameUuidDoc
    /\ duplicates >= 1
    /\ Len(concepts_all) >= 1
    /\ Len(FinishedOf(Emitted)) = 1

\* the records that carry the legacy-version warning
LegacyRecords(records) ==
    SelectSeq(records, LAMBDA c : \E k \in 1..Len(c.warnings) : c.warnings[k] = Warn33)

\* C20: at every progress event and at completion the legacy-schema counter
\* equals the number of records retained so far that carry the '3.3'
\* warning; rejected files and duplicate occurrences of a legacy document
\* never increment it.
C20_LegacyCounter ==
    LET pr == ProgressOf(Emitted)
    IN  /\ cfdi33_count = Len(LegacyRecords(cfdis))
        /\ (pr # <<>> /\ pc # "ready") => pr[Len(pr)].cfdi33 = cfdi33_count
        /\ \A k \in 1..Len(Emitted) :
              Emitted[k].sig = "finished" =>
                  cfdi33_count = Len(LegacyRecords(Emitted[k].cfdis))

\* C20 witness: a completed run that retained one legacy record, met its
\* UUID again in another legacy document and counted one rejected file
C20_Witness ==
    /\ pc = "done"
    /\ cfdi33_count = 1
    /\ duplicates = 1
    /\ invalid_count = 1
    /\ \E i, j \in 1..Len(accepted) :
          i < j /\ accepted[i].uuid = accepted[j].uuid
                /\ IsLegacy(accepted[i]) /\ IsLegacy(accepted[j])

(***************************************************************************)
(* Claims about repeated runs (checked under SpecRerun)                    *)
(***************************************************************************)
\* C16: running the batch processor twice over the same static file set
\* with the same taxpayer id produces the same records (same UUIDs, same
\* classifications), the same final counters and identical KPI snapshots.
C16_RerunSame ==
    (run = 2 /\ WorkerStopped /\ queue = <<>>) =>
        /\ [k \in 1..Len(cfdis) |-> <<cfdis[k].uuid, cfdis[k].clasificacion>>] =
           [k \in 1..Len(prev.cfdis) |->
               <<prev.cfdis[k].uuid, prev.cfdis[k].clasificacion>>]
        /\ invalid_count = prev.invalid
        /\ duplicates = prev.duplicates
        /\ cfdi33_count = prev.cfdi33
        /\ win.kpis_data = prev.win.kpis_data
        /\ Outcome = prev

\* C16 witness: a second scan that has ended like the first, with two
\* records kept, a repeated UUID and a KPI snapshot
C16_Witness ==
    /\ run = 2
    /\ pc = "done"
    /\ queue = <<>>
    /\ Len(cfdis) = 2
    /\ duplicates = 1
    /\ win.kpis_data # <<>>
    /\ win.kpis_data.conteo_cfdi >= 1
    /\ win.kpis_data = prev.win.kpis_data

(***************************************************************************)
(* More claims about the batch run (checked under Spec)                    *)
(***************************************************************************)
\* the label recomputed from the record and the taxpayer id of the run
LabelIsCurrent(records) ==
    \A k \in 1..Len(records) :
        records[k].clasificacion = classify_cfdi(records[k], user_rfc)

\* C21: every record of the result carries the classification written
\* before it was appended, equal to classify_cfdi(record, taxpayer id of the
\* run); neither the batch processor nor compute_kpis changes it
\* afterwards.
C21_ClassifiedOnce ==
    /\ LabelIsCurrent(cfdis)
    /\ \A k \in 1..Len(Emitted) :
          Emitted[k].sig = "finished" => LabelIsCurrent(Emitted[k].cfdis)
    /\ LabelIsCurrent(win.cfdis)
    /\ win.kpis_data # <<>> =>
          /\ win.cfdis = cfdis
          /\ win.ingresos = SelectSeq(cfdis, LAMBDA c : c.clasificacion = Ingresos)
          /\ win.egresos = SelectSeq(cfdis, LAMBDA c : c.clasificacion = Egresos)

\* C21 witness: the window holds an Income and an Expense record after the
\* KPIs were computed
C21_Witness ==
    /\ pc = "done"
    /\ queue = <<>>
    /\ win.kpis_data # <<>>
    /\ Len(win.ingresos) = 1
    /\ Len(win.egresos) = 1
    /\ win.kpis_data.conteo_cfdi = 2

\* the position in a record list of the record with this UUID
RecordIndex(records, uuid) == CHOOSE i \in 1..Len(records) : records[i].uuid = uuid

\* C22: the line-item list emitted at completion is the concatenation, in
\* the order of the retained records, of each retained record's line items
\* in document order: every item's uuid is the UUID of a retained record
\* and the number of items with a UUID is that record's line-item count.
C22_LineItems ==
    \A k \in 1..Len(Emitted) :
        Emitted[k].sig = "finished" =>
            LET rs    == Emitted[k].cfdis
                items == Emitted[k].concepts
                of(i) == SelectSeq(items, LAMBDA c : c.uuid = rs[i].uuid)
            IN  /\ \A j \in 1..Len(items) : items[j].uuid \in UuidsOf(rs)
                /\ \A i \in 1..Len(rs) :
                      /\ Len(of(i)) = rs[i].num_conceptos
                      /\ of(i) = ParsedFile[files[FirstFileOf(rs[i].uuid)]].concepts
                /\ \A a, b \in 1..Len(items) :
                      a < b => RecordIndex(rs, items[a].uuid) <= RecordIndex(rs, items[b].uuid)

\* C22 witness: the sample document (one line) and then the legacy document
\* (two lines) retained: three items, the sample's first
C22_Witness ==
    /\ pc = "done"
    /\ Len(FinishedOf(Emitted)) = 1
    /\ Len(FinishedOf(Emitted)[1].cfdis) = 2
    /\ Len(FinishedOf(Emitted)[1].concepts) = 3
    /\ FinishedOf(Emitted)[1].concepts[1].uuid = U1
    /\ FinishedOf(Emitted)[1].concepts[2].descripcion = D2
    /\ FinishedOf(Emitted)[1].concepts[3].descripcion = D1

\* the records retained after the first k files: one per distinct UUID among
\* the files the parser accepted
RetainedAfter(k) ==
    Cardinality({ParsedFile[files[i]].cfdi[1].uuid :
                    i \in {j \in 1..k : ParsedFile[files[j]].cfdi # None}})

\* C27 as stated: in every progress event of a run, processed = invalid +
\* duplicates + (number of records retained so far), legacy <= number of
\* records retained so far, and total is the same in all events; the last
\* progress event has processed = total, so a started run always covers its
\* whole enumerated file set.
C27_RunCoversFiles ==
    LET pr == ProgressOf(Emitted)
    IN  /\ \A k \in 1..Len(pr) :
              /\ pr[k].processed
                    = pr[k].invalid + pr[k].duplicates + RetainedAfter(pr[k].processed)
              /\ pr[k].cfdi33 <= RetainedAfter(pr[k].processed)
              /\ pr[k].total = Len(files)
        /\ WorkerStopped =>
              /\ processed = total
              /\ pr # <<>> => pr[Len(pr)].processed = pr[Len(pr)].total

(***************************************************************************)
(* _collect_xml_files: the enumeration of the supplied paths               *)
(***************************************************************************)
DotXml == <<".", "x", "m", "l">>

\* name.rfind(".") as a position from 1, 0 when there is no dot
LastDot(name) ==
    LET dots == {k \in 1..Len(name) : name[k] = "."}
    IN  IF dots = {} THEN 0 ELSE CHOOSE k \in dots : \A j \in dots : j <= k

\* PurePath.suffix: the part of the name from its last dot on, empty when
\* the name has no dot, begins with its only dot or ends with a dot
Suffix(name) ==
    LET i == LastDot(name)
    IN  IF 1 < i /\ i < Len(name) THEN SubSeq(name, i, Len(name)) ELSE <<>>

RECURSIVE Concat(_)
Concat(seqs) == IF seqs = <<>> THEN <<>> ELSE Head(seqs) \o Concat(Tail(seqs))

\* os.walk(p), top down: the matching file names of a directory, then those
\* of its subdirectories (lines 27-30)
RECURSIVE Walk(_)
Walk(dir) ==
    SelectSeq(dir.filenames, LAMBDA f : EndsWith(Lower(f.name), DotXml))
    \o Concat([k \in 1..Len(dir.subdirs) |-> Walk(dir.subdirs[k])])

\* one iteration of the loop over paths (lines 22-30)
CollectPath(p) ==
    IF p.kind = "file" /\ Lower(Suffix(p.name)) = DotXml THEN <<p>>
    ELSE IF p.kind = "dir" THEN Walk(p)
    ELSE <<>>

RECURSIVE Unique(_)
Unique(fs) ==
    IF fs = <<>> THEN <<>>
    ELSE LET rest == Unique(SubSeq(fs, 1, Len(fs) - 1))
             last == fs[Len(fs)]
         IN  IF \E k \in 1..Len(rest) : rest[k] = last THEN rest ELSE Append(rest, last)

\* an enumeration that lists every file once
collect_xml_files_unique(ps) ==
    LET found == Unique(Concat([k \in 1..Len(ps) |-> CollectPath(ps[k])]))
    IN  [k \in 1..Len(found) |-> found[k].doc]

\* _collect_xml_files(paths); the scanner reads each file's content
collect_xml_files(ps) ==
    LET found == Concat([k \in 1..Len(ps) |-> CollectPath(ps[k])])
    IN  [k \in 1..Len(found) |-> found[k].doc]

\* ---- a small file system ----
FileAt(name, doc) == [kind |-> "file", name |-> name, doc |-> doc]
DirOf(filenames, subdirs) == [kind |-> "dir", filenames |-> filenames, subdirs |-> subdirs]

FileA   == FileAt(<<"a", ".", "x", "m", "l">>, SampleDoc)
FileB   == FileAt(<<"b", ".", "X", "M", "L">>, LegacyDoc)
FileTxt == FileAt(<<"c", ".", "t", "x", "t">>, PagoDoc)
FileBad == FileAt(<<"d", ".", "x", "m", "l">>, MalformedDoc)
\* a name that is all extension: no suffix for pathlib, a match for endswith
FileDot == FileAt(DotXml, NoStampDoc)
\* FileA and a text file, and below them a folder with FileB
DirAB    == DirOf(<<FileA, FileTxt>>, <<DirOf(<<FileB, FileDot>>, <<>>)>>)
DirNoXml == DirOf(<<FileTxt>>, <<>>)
Missing  == [kind |-> "missing"]

FsFiles == {FileA, FileB, FileTxt, FileBad, FileDot}
PathSet == {FileA, FileB, FileTxt, FileDot, DirAB, DirNoXml, Missing}
MaxPaths == 2   \* paths supplied to one scan
PathLists == UNION {[1..n -> PathSet] : n \in 1..MaxPaths}

(***************************************************************************)
(* SpecPaths: one batch run that enumerates the supplied paths             *)
(***************************************************************************)
InitPaths ==
    /\ ClIdle /\ PIdle /\ KIdle
    /\ paths \in PathLists
    /\ user_rfc \in {RFC_AAA, RFC_BBB}
    /\ files = <<>>
    /\ pc = "ready"
    /\ total = 0 /\ processed = 0 /\ invalid_count = 0 /\ duplicates = 0
    /\ cfdi33_count = 0 /\ uuids_seen = {} /\ cfdis = <<>> /\ concepts_all = <<>>
    /\ accepted = <<>> /\ queue = <<>> /\ delivered = <<>>
    /\ win = WinInit
    /\ run = 1 /\ prev = <<>>
    /\ w2 = NoWorker

\* start() and lines 53-61 of _run, with the enumeration of line 53
StartScan ==
    /\ pc = "ready"
    /\ pc' = "loop"
    /\ files' = collect_xml_files(paths)
    /\ total' = Len(files')
    /\ processed' = 0 /\ invalid_count' = 0 /\ duplicates' = 0 /\ cfdi33_count' = 0
    /\ uuids_seen' = FreshSeen(uuids_seen) /\ cfdis' = <<>> /\ concepts_all' = <<>>
    /\ UNCHANGED <<user_rfc, accepted, queue, delivered, win, run, prev, paths, w2,
                   clVars, pVars, kVars>>

NextPaths == StartScan \/ ProcessFile \/ Finish \/ DeliverProgress \/ DeliverFinished
SpecPaths == InitPaths /\ [][NextPaths]_vars

\* a file with the XML extension, in any letter case
HasXmlExtension(f) ==
    /\ Len(f.name) > 4
    /\ Lower(SubSeq(f.name, Len(f.name) - 3, Len(f.name))) = DotXml

\* how many times a path reaches a file: as the path itself, or once for
\* each place it has in the tree of a directory
RECURSIVE InTree(_, _)
InTree(dir, f) ==
    Len(SelectSeq(dir.filenames, LAMBDA g : g = f))
    + SumSeq([k \in 1..Len(dir.subdirs) |-> InTree(dir.subdirs[k], f)])
Reaches(p, f) ==
    IF p.kind = "file" THEN (IF p = f THEN 1 ELSE 0)
    ELSE IF p.kind = "dir" THEN InTree(p, f)
    ELSE 0

Occurrences(docs, doc) == Len(SelectSeq(docs, LAMBDA d : d = doc))

\* C30: enumeration does not deduplicate: an .xml file reachable through
\* two supplied paths (listed twice, or listed and also inside a supplied
\* directory) is enumerated and counted in total once per path; each
\* accepted occurrence after the first increments the duplicate counter and
\* the result keeps one record for it.
C30_NoPathDedup ==
    pc # "ready" =>
        /\ total = Len(files)
        /\ \A f \in {g \in FsFiles : HasXmlExtension(g)} :
              LET n == SumSeq([k \in 1..Len(paths) |-> Reaches(paths[k], f)])
                  r == ParsedFile[f.doc]
              IN  /\ Occurrences(files, f.doc) = n
                  /\ total >= n
                  /\ (pc = "done" /\ n >= 1 /\ r.cfdi # None) =>
                        /\ duplicates >= n - 1
                        /\ Len(SelectSeq(cfdis, LAMBDA c : c.uuid = r.cfdi[1].uuid)) = 1
        /\ pc = "done" =>
              duplicates = Len(accepted) - Cardinality(UuidsOf(accepted))

\* C30 witness: a.xml listed directly and again inside the supplied folder
C30_Witness ==
    /\ pc = "done"
    /\ paths = <<FileA, DirAB>>
    /\ total = 4
    /\ duplicates = 1
    /\ invalid_count = 1
    /\ Len(cfdis) = 2

(***************************************************************************)
(* SpecLoads: a scan started from the main window and, once it is over, a  *)
(* second scan of other paths                                              *)
(***************************************************************************)
\* what the user picks in the dialogs of _on_load_clicked
LoadChoices == { <<FileBad>>, <<DirNoXml>>, <<FileA, FileA>>, <<FileB>> }

InitLoads ==
    /\ ClIdle /\ PIdle /\ KIdle
    /\ paths \in LoadChoices
    /\ user_rfc \in {RFC_AAA, RFC_BBB}
    /\ files = <<>>
    /\ pc = "ready"
    /\ total = 0 /\ processed = 0 /\ invalid_count = 0 /\ duplicates = 0
    /\ cfdi33_count = 0 /\ uuids_seen = {} /\ cfdis = <<>> /\ concepts_all = <<>>
    /\ accepted = <<>> /\ queue = <<>> /\ delivered = <<>>
    /\ win = WinInit
    /\ run = 1 /\ prev = <<>>
    /\ w2 = NoWorker

\* _on_load_clicked (lines 525-564) after the first scan is over: the paths
\* are picked, cfdis and concepts are emptied and a new XMLScanner is
\* started; the three counters of the window are left as they are
Load ==
    /\ run = 1
    /\ WorkerStopped
    /\ queue = <<>>
    /\ paths' \in LoadChoices
    /\ prev' = Outcome
    /\ run' = 2
    /\ win' = [win EXCEPT !.cfdis = <<>>, !.concepts = <<>>]
    /\ pc' = "ready"
    /\ accepted' = <<>>
    /\ delivered' = <<>>
    /\ UNCHANGED <<files, user_rfc, total, processed, invalid_count, duplicates,
                   cfdi33_count, uuids_seen, cfdis, concepts_all, queue,
                   w2, clVars, pVars, kVars>>

NextLoads ==
    StartScan \/ ProcessFile \/ Finish \/ DeliverProgress \/ DeliverFinished \/ Load
SpecLoads == InitLoads /\ [][NextLoads]_vars

\* C28 as stated: for every sequence of batch runs started one after
\* another, the data-quality block of the KPI snapshot computed at a run's
\* completion equals that run's own final counters; a run that enumerates
\* zero files yields a snapshot with the three counts equal to 0 even when
\* an earlier run had non-zero counts.
C28_OwnCounters ==
    (pc = "done" /\ queue = <<>>) =>
        win.kpis_data.calidad =
            [invalidos |-> invalid_count, duplicados |-> duplicates,
             cfdi33 |-> cfdi33_count]

(***************************************************************************)
(* SpecOverlap: a second scan started from the main window while the first *)
(* one is still running.  Both workers post their signals to the event     *)
(* queue of the caller's thread.                                           *)
(***************************************************************************)
OverlapChoices == { <<FileBad>>, <<FileA, FileA>>, <<DirNoXml>> }

InitOverlap ==
    /\ ClIdle /\ PIdle /\ KIdle
    /\ paths \in OverlapChoices
    /\ user_rfc = RFC_AAA
    /\ files = <<>>
    /\ pc = "ready"
    /\ total = 0 /\ processed = 0 /\ invalid_count = 0 /\ duplicates = 0
    /\ cfdi33_count = 0 /\ uuids_seen = {} /\ cfdis = <<>> /\ concepts_all = <<>>
    /\ accepted = <<>> /\ queue = <<>> /\ delivered = <<>>
    /\ win = WinInit
    /\ run = 1 /\ prev = <<>>
    /\ w2 = NoWorker

\* the first scan is not over: its worker runs or its signals are pending
FirstInProgress == ~(WorkerStopped /\ queue = <<>>)

\* _on_load_clicked (lines 525-564) during the first scan: no test stops it
LoadDuringScan ==
    /\ w2.pc = "none"
    /\ FirstInProgress
    /\ \E ps \in OverlapChoices : w2' = [NoWorker EXCEPT !.pc = "ready", !.paths = ps]
    /\ win' = [win EXCEPT !.cfdis = <<>>, !.concepts = <<>>]
    /\ run' = 2
    /\ UNCHANGED <<files, user_rfc, pc, total, processed, invalid_count, duplicates,
                   cfdi33_count, uuids_seen, cfdis, concepts_all, accepted, queue,
                   delivered, prev, paths, clVars, pVars, kVars>>

\* the first worker's variables, which the second worker does not touch
firstVars == <<files, user_rfc, pc, total, processed, invalid_count, duplicates,
               cfdi33_count, uuids_seen, cfdis, concepts_all, accepted, paths>>

\* the position the next posted signal gets among all signals
NextPosition == Len(delivered) + Len(queue) + 1

\* start() and lines 53-61 of _run in the second worker
StartScan2 ==
    /\ w2.pc = "ready"
    /\ w2' = [w2 EXCEPT !.pc = "loop",
                        !.files = collect_xml_files(w2.paths),
                        !.total = Len(collect_xml_files(w2.paths))]
    /\ UNCHANGED <<firstVars, queue, delivered, win, run, prev, clVars, pVars, kVars>>

\* one iteration of the loop of _run (lines 63-82) in the second worker
ProcessFile2 ==
    /\ w2.pc = "loop"
    /\ w2.processed < w2.total
    /\ LET idx == w2.processed + 1
           r   == ParsedFile[w2.files[idx]]
       IN  IF r.raised
           THEN /\ w2' = [w2 EXCEPT !.pc = "crashed"]
                /\ UNCHANGED queue
           ELSE LET isNone == r.cfdi = None
                    cfdi   == r.cfdi[1]
                    dup    == ~isNone /\ SeenBefore(cfdi.uuid, w2.uuids_seen)
                    keep   == ~isNone /\ ~dup
                    inv2   == IF isNone THEN w2.invalid_count + 1 ELSE w2.invalid_count
                    dup2   == IF dup THEN w2.duplicates + 1 ELSE w2.duplicates
                    c33    == IF keep /\ IsLegacy(cfdi)
                              THEN w2.cfdi33_count + 1 ELSE w2.cfdi33_count
               IN  /\ w2' = [w2 EXCEPT
                                !.invalid_count = inv2,
                                !.duplicates = dup2,
                                !.cfdi33_count = c33,
                                !.uuids_seen = IF keep THEN AddSeen(@, cfdi.uuid) ELSE @,
                                !.cfdis = IF keep
                                          THEN Append(@, Classified(cfdi, user_rfc))
                                          ELSE @,
                                !.concepts_all = ConceptsAfter(@, r.concepts, keep),
                                !.processed = idx,
                                !.sent = @ \cup {NextPosition}]
                   /\ queue' = Append(queue, ProgressEvent(idx, inv2, dup2, c33, w2.total))
    /\ UNCHANGED <<firstVars, delivered, win, run, prev, clVars, pVars, kVars>>

\* lines 84-88 of _run in the second worker
Finish2 ==
    /\ w2.pc = "loop"
    /\ w2.processed = w2.total
    /\ queue' = Append(queue, FinishedEvent(w2.cfdis, w2.concepts_all))
    /\ w2' = [w2 EXCEPT !.pc = "done", !.sent = @ \cup {NextPosition}]
    /\ UNCHANGED <<firstVars, delivered, win, run, prev, clVars, pVars, kVars>>

NextOverlap ==
    \/ StartScan \/ ProcessFile \/ Finish
    \/ LoadDuringScan \/ StartScan2 \/ ProcessFile2 \/ Finish2
    \/ DeliverProgress \/ DeliverFinished
SpecOverlap == InitOverlap /\ [][NextOverlap]_vars

\* the final counters of the run that posted the k-th signal
CountersOfSender(k) ==
    IF k \in w2.sent
    THEN [invalidos |-> w2.invalid_count, duplicados |-> w2.duplicates,
          cfdi33 |-> w2.cfdi33_count]
    ELSE [invalidos |-> invalid_count, duplicados |-> duplicates,
          cfdi33 |-> cfdi33_count]

\* C29 as stated: a new batch run can be started while an earlier one is in
\* progress, and even with the two workers' progress and completion events
\* interleaved, at each completion the record list and the invalid,
\* duplicate and legacy counters used for the KPI snapshot belong to the
\* same run.
C29_SameRunAtCompletion ==
    /\ (w2.pc = "none" /\ FirstInProgress) => ENABLED LoadDuringScan
    /\ \A k \in 1..Len(delivered) :
          delivered[k].sig = "finished" =>
              LET before == {j \in 1..(k - 1) : delivered[j].sig = "progress"}
                  last   == CHOOSE j \in before : \A i \in before : i <= j
              IN  /\ before # {} => ((last \in w2.sent) <=> (k \in w2.sent))
                  /\ k = Len(delivered) => win.kpis_data.calidad = CountersOfSender(k)

====
